---------------------------- MODULE Spec2Model ----------------------------
(***************************************************************************)
(* A model of the deltav_calc library (src/deltav_calc_lib): the MenuTree  *)
(* of categories and locations, the undirected weighted graph its leaves   *)
(* point into, and DeltavMap::calculate_delta_v, which resolves two names  *)
(* through MenuTree::search and runs petgraph's astar with the edge weight *)
(* as cost and a zero heuristic.                                           *)
(***************************************************************************)
EXTENDS Integers, Sequences, FiniteSets, TLC

(***************************************************************************)
(* Bounds of the model.                                                    *)
(***************************************************************************)
\* the trees of SpecTree have at most this many nodes
MaxTreeNodes == 4
\* the leaves of the trees of SpecTree hold an index in 0..MaxIndex
MaxIndex == 1
\* the edges of the graphs of Spec weigh 0..MaxWeight
MaxWeight == 2

VARIABLES
    gui,              \* the widgets and the Selection of deltav_calc_bin, if it runs
    description,      \* the JSON value a DeltavMap is deserialized from, if it is
    menu_tree,        \* DeltavMap.menu_tree: the root MenuTree
    graph,            \* DeltavMap.graph: [nodes: payloads, edges: <<a, b, weight>>]
    pc,               \* "idle", "astar" (inside algo::astar's loop), "done"
    call,             \* the call in progress or just finished, with its arguments
    result,           \* what the finished call returned (or the panic it raised)
    visit_next,       \* astar: the BinaryHeap of MinScored(estimate, node), as a set of pairs
    scores,           \* astar: HashMap node -> best known cost from the start
    estimate_scores,  \* astar: HashMap node -> estimate the node was last expanded with
    prev              \* the call finished before this one and its result (a test's `let`)

vars == <<gui, description, menu_tree, graph, pc, call, result, visit_next, scores, estimate_scores, prev>>

(***************************************************************************)
(* Values: Result, Option, a panic, a plain return.                        *)
(***************************************************************************)
Some(x) == <<x>>
None == <<>>
Ok(v) == [tag |-> "Ok", value |-> v]
NoSuchNodeError(search_name) == [name |-> search_name]
Err(e) == [tag |-> "Err", error |-> e]
Panic(msg) == [tag |-> "Panic", message |-> msg]
Return(v) == [tag |-> "Return", value |-> v]
Pending == [tag |-> "Pending"]
NoCall == [op |-> "none"]
\* a map that was built in the program has no description
NoDescription == [kind |-> "none"]
\* a program that only uses the library has no widgets
NoGui == [stage |-> "none"]

cause_name(e) == e.name

(***************************************************************************)
(* MenuTree: the two variants of the enum.  A reference &MenuTree into a   *)
(* tree is the path of child positions (from 1) leading to the node.       *)
(***************************************************************************)
MiddleNode(name, children) == [kind |-> "MiddleNode", name |-> name, children |-> children]
EndNode(name, index) == [kind |-> "EndNode", name |-> name, index |-> index]

RECURSIVE NodeAt(_, _)
NodeAt(t, p) ==
    IF p = <<>> THEN t ELSE NodeAt(t.children[Head(p)], Tail(p))

RECURSIVE Paths(_)
Paths(t) ==
    IF t.kind # "MiddleNode" THEN {<<>>}
    ELSE {<<>>} \cup UNION {{<<i>> \o q : q \in Paths(t.children[i])} : i \in DOMAIN t.children}

MiddleNodePanic == "MiddleNodes don't have indices"

\* index as a slip would have it: a category answers with a default index
index_default(t) ==
    IF t.kind = "MiddleNode" THEN Return(0) ELSE Return(t.index)

\* MenuTree::index (pub(crate)): the leaf's NodeIndex, a panic on a category
index(t) ==
    IF t.kind = "MiddleNode" THEN Panic(MiddleNodePanic) ELSE Return(t.index)

\* MenuTree::name
name(t) == t.name

\* MenuTree::search: Ok(path of the node found, relative to t) or Err(NoSuchNodeError)
RECURSIVE search(_, _)
RECURSIVE searchChildren(_, _, _)

\* search as a slip would have it: the children are asked before the
\* node's own name is looked at
search_children_first(t, search_name) ==
    IF t.kind = "EndNode"
    THEN IF t.name = search_name
         THEN Ok(<<>>)
         ELSE Err(NoSuchNodeError(search_name))
    ELSE LET r == searchChildren(t.children, 1, search_name)
         IN  IF r.tag = "Ok" THEN r
             ELSE IF t.name = search_name
                  THEN Ok(<<>>)
                  ELSE r

\* the loop as a slip would have it: the first child's result is returned
\* whether it is Ok or Err
searchChildren_first_only(children, i, search_name) ==
    IF i > Len(children)
    THEN Err(NoSuchNodeError(search_name))
    ELSE LET r == search(children[i], search_name)
         IN  IF r.tag = "Ok"
             THEN Ok(<<i>> \o r.value)
             ELSE r

search(t, search_name) ==
    IF t.kind = "EndNode"
    THEN IF t.name = search_name
         THEN Ok(<<>>)
         ELSE Err(NoSuchNodeError(search_name))
    ELSE IF t.name = search_name
         THEN Ok(<<>>)
         ELSE searchChildren(t.children, 1, search_name)

\* the `for child in children` loop of search, from child i on
searchChildren(children, i, search_name) ==
    IF i > Len(children)
    THEN Err(NoSuchNodeError(search_name))
    ELSE LET r == search(children[i], search_name)
         IN  IF r.tag = "Ok"
             THEN Ok(<<i>> \o r.value)
             ELSE searchChildren(children, i + 1, search_name)

(***************************************************************************)
(* The graph: petgraph's UnGraph<String, i32>.  nodes[i + 1] is the        *)
(* payload of NodeIndex i; edges are kept in the order they were added.    *)
(***************************************************************************)
new_undirected == [nodes |-> <<>>, edges |-> <<>>]

node_count(g) == Len(g.nodes)

\* Graph::add_node: the new node gets the index node_count(g)
add_node(g, weight) == [g EXCEPT !.nodes = Append(@, weight)]

\* add_edge as a slip would have it: a pair of nodes is joined once, a
\* further edge between the two is dropped
add_edge_once(g, a, b, weight) ==
    IF \E i \in DOMAIN g.edges : {g.edges[i][1], g.edges[i][2]} = {a, b}
    THEN g
    ELSE [g EXCEPT !.edges = Append(@, <<a, b, weight>>)]

\* Graph::add_edge(a, b, weight); it panics when a or b is no node of g
add_edge(g, a, b, weight) == [g EXCEPT !.edges = Append(@, <<a, b, weight>>)]

\* the edges added with a as their first end, newest first, from edge i down
RECURSIVE outgoing(_, _, _)
outgoing(g, a, i) ==
    IF i = 0 THEN <<>>
    ELSE IF g.edges[i][1] = a
         THEN <<[target |-> g.edges[i][2], weight |-> g.edges[i][3]]>> \o outgoing(g, a, i - 1)
         ELSE outgoing(g, a, i - 1)

\* the edges added with a as their second end, newest first, self-loops left
\* out (the outgoing walk has yielded them already)
RECURSIVE incoming(_, _, _)
incoming(g, a, i) ==
    IF i = 0 THEN <<>>
    ELSE IF g.edges[i][2] = a /\ g.edges[i][1] # a
         THEN <<[target |-> g.edges[i][1], weight |-> g.edges[i][3]]>> \o incoming(g, a, i - 1)
         ELSE incoming(g, a, i - 1)

\* edges as a slip would have it: the graph walked as a directed one
edges_directed(g, a) == outgoing(g, a, Len(g.edges))

\* Graph::edges(a) of an undirected graph, in iteration order
edges(g, a) == outgoing(g, a, Len(g.edges)) \o incoming(g, a, Len(g.edges))

(***************************************************************************)
(* calculate_delta_v's call of algo::astar: the closures it passes, and    *)
(* the loop of astar.  astar returns Some((cost, path)) or None; the path  *)
(* is dropped by the caller (`result.0`), so the model keeps the cost      *)
(* alone, and not the predecessor map that only builds the path.  Costs    *)
(* are i32; the weights of the model keep every sum far below i32::MAX.    *)
(* The loop is the one of petgraph 0.6: a popped node is skipped when it   *)
(* was expanded before with an estimate at least as good, and an edge is   *)
(* skipped when its far end is already scored at least as well.            *)
(***************************************************************************)
\* the edge cost as a slip would have it: every edge counts one
edge_cost_unit(e) == 1

\* |e| *e.weight()
edge_cost(e) == e.weight

\* the estimate as a slip would have it: the node's index instead of zero
estimate_cost_index(n) == n

\* |_| 0
estimate_cost(n) == 0

\* the goal test as a slip would have it: a category as end is no goal
\* instead of a panic
is_goal_no_panic(finish, end) ==
    Return(end.kind = "EndNode" /\ finish = end.index)

\* the goal test as a slip would have it: the index compared is one off
is_goal_off_by_one(finish, end) ==
    LET i == index(end)
    IN  IF i.tag = "Panic" THEN i ELSE Return(finish = i.value + 1)

\* |finish| finish == end.index().clone(): a panic when end is a category
is_goal(finish, end) ==
    LET i == index(end)
    IN  IF i.tag = "Panic" THEN i ELSE Return(finish = i.value)

\* the match as a slip would have it: no path counts as a cost of zero
match_result_default(r) ==
    IF r = None THEN Ok(Some(0)) ELSE Ok(Some(r[1].cost))

\* `match result { None => Ok(None), Some(result) => Ok(Some(result.0)) }`
\* on what astar returned
match_result(r) ==
    IF r = None THEN Ok(None) ELSE Ok(Some(r[1].cost))

\* the entries of the heap a pop may return: those of least score
MinScored(heap) == {e \in heap : \A f \in heap : e[1] <= f[1]}

\* astar's `for edge in graph.edges(node)` over the edges es, node_score
\* being the cost of the node expanded
RECURSIVE relax(_, _, _, _)
relax(es, node_score, sc, heap) ==
    IF es = <<>> THEN [scores |-> sc, visit_next |-> heap]
    ELSE LET edge == Head(es)
             next == edge.target
             next_score == node_score + edge_cost(edge)
         IN  IF next \in DOMAIN sc /\ sc[next] <= next_score
             THEN relax(Tail(es), node_score, sc, heap)
             ELSE relax(Tail(es), node_score, (next :> next_score) @@ sc,
                        heap \cup {<<next_score + estimate_cost(next), next>>})

(***************************************************************************)
(* The catalogs the checks run on.                                         *)
(***************************************************************************)
\* tests::get_test_tree: Category1{Category2{Node1(0), Node2(1)}, Node3(2), Node4(3)}
get_test_tree ==
    MiddleNode("Category1", <<
        MiddleNode("Category2", <<EndNode("Node1", 0), EndNode("Node2", 1)>>),
        EndNode("Node3", 2),
        EndNode("Node4", 3)>>)

\* the four add_node calls of tests::get_test_map, one per leaf, in the
\* order the tree literal is evaluated
TestNodes ==
    add_node(add_node(add_node(add_node(new_undirected, "Node1"), "Node2"), "Node3"), "Node4")

\* impl Display for NoSuchNodeError
Display(e) == "There is no node with the name \"" \o e.name \o "\" in the tree"

\* the indexing form as a slip would have it: the panic carries the bare name
Index_bare_name(t, search_name) ==
    LET r == search(t, search_name)
    IN  IF r.tag = "Ok" THEN Return(r.value)
        ELSE Panic(cause_name(r.error))

\* impl Index<&str> for MenuTree: tree[name] is the node search finds, a
\* panic with the error's text when there is none
Index(t, search_name) ==
    LET r == search(t, search_name)
    IN  IF r.tag = "Ok" THEN Return(r.value)
        ELSE Panic(Display(r.error))

\* menu_tree[name].index().clone() of a leaf name, as the add_edge calls use it
LeafIndex(t, search_name) == index(NodeAt(t, Index(t, search_name).value)).value

\* a second tree a description can hold: the name Node1 twice, two leaves
\* with the index 3, no leaf with the index 2, a category named like no leaf
shared_tree ==
    MiddleNode("Category1", <<
        EndNode("Node1", 3),
        MiddleNode("Category2", <<EndNode("Node1", 0), EndNode("Node2", 3)>>),
        EndNode("Node3", 1)>>)

CatalogTrees == {get_test_tree, shared_tree}

\* the pairs of nodes an edge of a graph of Spec may join, in the order the
\* edges are added: a self-loop, a triangle and a tail
EdgeSlots == << <<1, 0>>, <<0, 0>>, <<0, 2>>, <<2, 1>>, <<3, 2>> >>

\* the add_edge calls for the slots in S from slot i on, with the weights w
RECURSIVE AddEdges(_, _, _, _)
AddEdges(g, S, w, i) ==
    IF i > Len(EdgeSlots) THEN g
    ELSE IF i \in S
         THEN AddEdges(add_edge(g, EdgeSlots[i][1], EdgeSlots[i][2], w[i]), S, w, i + 1)
         ELSE AddEdges(g, S, w, i + 1)

\* every graph on the test nodes with at most one edge per slot
Graphs ==
    UNION {{AddEdges(TestNodes, S, w, 1) : w \in [S -> 0..MaxWeight]} :
           S \in SUBSET (1..Len(EdgeSlots))}

\* the names calculate_delta_v is called with: the leaves, the categories
\* and two names that are not in the tree
QueryNames ==
    {"Node1", "Node2", "Node3", "Node4", "Category1", "Category2", "Nonexistent", "test"}

(***************************************************************************)
(* DeltavMap::calculate_delta_v.  The call resolves both names and starts  *)
(* astar; each further step is one turn of astar's `while let Some(..) =   *)
(* visit_next.pop()` loop.  A pop returns any entry of least score: the    *)
(* order of a BinaryHeap among equal scores is not specified.              *)
(***************************************************************************)
\* astar's locals are dropped when it returns
Finish(r) ==
    /\ result' = r
    /\ pc' = "done"
    /\ visit_next' = {}
    /\ scores' = <<>>
    /\ estimate_scores' = <<>>

\* calculate_delta_v as a slip would have it: the end is resolved first
calculate_delta_v_end_first(start_name, end_name) ==
    /\ pc = "idle"
    /\ LET start == search(menu_tree, start_name)
           end == search(menu_tree, end_name)
       IN  /\ call' = [op |-> "calculate_delta_v", start |-> start_name, end |-> end_name,
                       end_ref |-> end]
           /\ IF end.tag = "Err" THEN Finish(Err(end.error))
              ELSE IF start.tag = "Err" THEN Finish(Err(start.error))
              ELSE LET s == index(NodeAt(menu_tree, start.value))
                   IN  IF s.tag = "Panic" THEN Finish(s)
                       ELSE /\ pc' = "astar"
                            /\ result' = Pending
                            /\ scores' = (s.value :> 0)
                            /\ visit_next' = {<<estimate_cost(s.value), s.value>>}
                            /\ estimate_scores' = <<>>
    /\ UNCHANGED <<description, menu_tree, graph>>

\* pub fn calculate_delta_v(&self, start: &str, end: &str)
calculate_delta_v(start_name, end_name) ==
    /\ pc = "idle"
    /\ LET start == search(menu_tree, start_name)
           end == search(menu_tree, end_name)
       IN  /\ call' = [op |-> "calculate_delta_v", start |-> start_name, end |-> end_name,
                       end_ref |-> end]
           /\ IF start.tag = "Err" THEN Finish(Err(start.error))
              ELSE IF end.tag = "Err" THEN Finish(Err(end.error))
              ELSE LET s == index(NodeAt(menu_tree, start.value))
                   IN  IF s.tag = "Panic" THEN Finish(s)
                       ELSE /\ pc' = "astar"
                            /\ result' = Pending
                            /\ scores' = (s.value :> 0)
                            /\ visit_next' = {<<estimate_cost(s.value), s.value>>}
                            /\ estimate_scores' = <<>>
    /\ UNCHANGED <<description, menu_tree, graph>>

\* the node `end` of calculate_delta_v that the goal closure has captured
EndRef == NodeAt(menu_tree, call.end_ref.value)

\* the popped node is the goal: astar returns Some((cost, path))
AstarGoal ==
    /\ pc = "astar"
    /\ \E e \in MinScored(visit_next) :
         /\ is_goal(e[2], EndRef) = Return(TRUE)
         /\ Finish(match_result(Some([cost |-> scores[e[2]]])))
    /\ UNCHANGED <<gui, description, menu_tree, graph, call, prev>>

\* the goal closure panics: end is a category
AstarPanic ==
    /\ pc = "astar"
    /\ \E e \in MinScored(visit_next) :
         /\ is_goal(e[2], EndRef).tag = "Panic"
         /\ Finish(is_goal(e[2], EndRef))
    /\ UNCHANGED <<gui, description, menu_tree, graph, call, prev>>

\* the popped node was expanded before with an estimate at least as good: `continue`
AstarContinue ==
    /\ pc = "astar"
    /\ \E e \in MinScored(visit_next) :
         /\ is_goal(e[2], EndRef) = Return(FALSE)
         /\ e[2] \in DOMAIN estimate_scores
         /\ estimate_scores[e[2]] <= e[1]
         /\ visit_next' = visit_next \ {e}
    /\ UNCHANGED <<gui, description, menu_tree, graph, call, prev, pc, result, scores, estimate_scores>>

\* the popped node is expanded: its estimate is recorded and its edges are relaxed
AstarExpand ==
    /\ pc = "astar"
    /\ \E e \in MinScored(visit_next) :
         /\ is_goal(e[2], EndRef) = Return(FALSE)
         /\ ~(e[2] \in DOMAIN estimate_scores /\ estimate_scores[e[2]] <= e[1])
         /\ estimate_scores' = (e[2] :> e[1]) @@ estimate_scores
         /\ LET r == relax(edges(graph, e[2]), scores[e[2]], scores, visit_next \ {e})
            IN  /\ scores' = r.scores
                /\ visit_next' = r.visit_next
    /\ UNCHANGED <<gui, description, menu_tree, graph, call, prev, pc, result>>

\* the heap is empty: astar returns None
AstarExhausted ==
    /\ pc = "astar"
    /\ visit_next = {}
    /\ Finish(match_result(None))
    /\ UNCHANGED <<gui, description, menu_tree, graph, call, prev>>

Astar == AstarGoal \/ AstarPanic \/ AstarContinue \/ AstarExpand \/ AstarExhausted

\* the caller takes the result; the map is ready for the next call
Done ==
    /\ pc = "done"
    /\ pc' = "idle"
    /\ call' = NoCall
    /\ result' = Pending
    /\ UNCHANGED <<gui, description, menu_tree, graph, visit_next, scores, estimate_scores, prev>>

Query ==
    /\ \E start_name \in QueryNames, end_name \in QueryNames :
         calculate_delta_v(start_name, end_name)
    /\ UNCHANGED <<gui, prev>>

InitCall ==
    /\ gui = NoGui
    /\ description = NoDescription
    /\ pc = "idle"
    /\ call = NoCall
    /\ result = Pending
    /\ visit_next = {}
    /\ scores = <<>>
    /\ estimate_scores = <<>>
    /\ prev = NoCall

\* any catalog of the two trees and the graphs, and any sequence of calculate_delta_v calls on it
Init ==
    /\ menu_tree \in CatalogTrees
    /\ graph \in Graphs
    /\ InitCall

Next == Query \/ Astar \/ Done

Spec == Init /\ [][Next]_vars

(***************************************************************************)
(* SpecSym: a caller that asks for a pair of names and then for the same   *)
(* pair the other way round, keeping the first answer.                     *)
(***************************************************************************)
First ==
    /\ prev = NoCall
    /\ Query

Keep ==
    /\ pc = "done"
    /\ prev = NoCall
    /\ prev' = [call |-> call, result |-> result]
    /\ pc' = "idle"
    /\ call' = NoCall
    /\ result' = Pending
    /\ UNCHANGED <<gui, description, menu_tree, graph, visit_next, scores, estimate_scores>>

Second ==
    /\ prev # NoCall
    /\ calculate_delta_v(prev.call.end, prev.call.start)
    /\ UNCHANGED <<gui, prev>>

NextSym == First \/ Keep \/ Second \/ Astar

SpecSym == Init /\ [][NextSym]_vars

(***************************************************************************)
(* SpecRef: the catalog of tests::get_test_map and its variations: the     *)
(* test's weights in every arrangement, a fifth leaf Node5 that no edge    *)
(* touches, and a further edge from Node1 to Node3.                        *)
(***************************************************************************)
Weight12 == 900
Weight23 == 80
Weight34 == 50

\* the add_edge calls as a slip would have them: the last edge leaves from
\* Node2 instead of Node3
PathGraph_typo(g, w) ==
    add_edge(add_edge(add_edge(g,
        LeafIndex(get_test_tree, "Node1"), LeafIndex(get_test_tree, "Node2"), w[1]),
        LeafIndex(get_test_tree, "Node2"), LeafIndex(get_test_tree, "Node3"), w[2]),
        LeafIndex(get_test_tree, "Node2"), LeafIndex(get_test_tree, "Node4"), w[3])

\* the three add_edge calls of tests::get_test_map on the nodes g, with the weights w
PathGraph(g, w) ==
    add_edge(add_edge(add_edge(g,
        LeafIndex(get_test_tree, "Node1"), LeafIndex(get_test_tree, "Node2"), w[1]),
        LeafIndex(get_test_tree, "Node2"), LeafIndex(get_test_tree, "Node3"), w[2]),
        LeafIndex(get_test_tree, "Node3"), LeafIndex(get_test_tree, "Node4"), w[3])

\* tests::get_test_map
get_test_map ==
    [menu_tree |-> get_test_tree,
     graph |-> PathGraph(TestNodes, <<Weight12, Weight23, Weight34>>)]

TestWeights == {Weight12, Weight23, Weight34}

\* the test tree with a fifth leaf, the next add_node giving it its index
five_leaf_tree ==
    MiddleNode("Category1",
        Append(get_test_tree.children, EndNode("Node5", node_count(TestNodes))))

\* the catalogs of SpecRef
RefCatalogs ==
    LET paths(g) == {PathGraph(g, w) : w \in [1..3 -> TestWeights]}
        chords(g) == {g} \cup {add_edge(g, LeafIndex(get_test_tree, "Node1"),
                                        LeafIndex(get_test_tree, "Node3"), c) : c \in TestWeights}
    IN  {[menu_tree |-> get_test_tree, graph |-> h] :
            h \in UNION {chords(g) : g \in paths(TestNodes)}}
        \cup {[menu_tree |-> five_leaf_tree, graph |-> h] :
            h \in UNION {chords(g) : g \in paths(add_node(TestNodes, "Node5"))}}

RefQueryNames == QueryNames \cup {"Node5"}

QueryRef ==
    /\ \E start_name \in RefQueryNames, end_name \in RefQueryNames :
         calculate_delta_v(start_name, end_name)
    /\ UNCHANGED <<gui, prev>>

InitRef ==
    /\ \E c \in RefCatalogs :
         /\ menu_tree = c.menu_tree
         /\ graph = c.graph
    /\ InitCall

NextRef == QueryRef \/ Astar \/ Done

SpecRef == InitRef /\ [][NextRef]_vars

(***************************************************************************)
(* SpecTree: every tree of at most MaxTreeNodes nodes, and the calls of    *)
(* MenuTree's methods on each of its nodes.                                *)
(***************************************************************************)
\* the names of the nodes: two that differ in case only
TreeNames == {"Node1", "node1"}

\* the names searched for: those and one no node has
SearchNames == TreeNames \cup {"test"}

\* the trees of exactly n nodes, and the child lists of m nodes in all
RECURSIVE TreesOfSize(_)
RECURSIVE Forests(_)
TreesOfSize(n) ==
    {MiddleNode(nm, f) : nm \in TreeNames, f \in Forests(n - 1)}
    \cup (IF n = 1 THEN {EndNode(nm, i) : nm \in TreeNames, i \in 0..MaxIndex} ELSE {})

Forests(m) ==
    IF m = 0 THEN {<<>>}
    ELSE UNION {{<<t>> \o f : t \in TreesOfSize(k), f \in Forests(m - k)} : k \in 1..m}

Trees == UNION {TreesOfSize(n) : n \in 1..MaxTreeNodes}

\* self.search(search_name) on the node at path self
CallSearch ==
    /\ pc = "idle"
    /\ \E self \in Paths(menu_tree), search_name \in SearchNames :
         /\ call' = [op |-> "search", self |-> self, search_name |-> search_name]
         /\ result' = search(NodeAt(menu_tree, self), search_name)
    /\ pc' = "done"
    /\ UNCHANGED <<gui, description, menu_tree, graph, visit_next, scores, estimate_scores, prev>>

\* self.index() on the node at path self
CallIndex ==
    /\ pc = "idle"
    /\ \E self \in Paths(menu_tree) :
         /\ call' = [op |-> "index", self |-> self]
         /\ result' = index(NodeAt(menu_tree, self))
    /\ pc' = "done"
    /\ UNCHANGED <<gui, description, menu_tree, graph, visit_next, scores, estimate_scores, prev>>

\* self.name() on the node at path self
CallName ==
    /\ pc = "idle"
    /\ \E self \in Paths(menu_tree) :
         /\ call' = [op |-> "name", self |-> self]
         /\ result' = Return(name(NodeAt(menu_tree, self)))
    /\ pc' = "done"
    /\ UNCHANGED <<gui, description, menu_tree, graph, visit_next, scores, estimate_scores, prev>>

\* &self[search_name] on the node at path self
CallIndexStr ==
    /\ pc = "idle"
    /\ \E self \in Paths(menu_tree), search_name \in SearchNames :
         /\ call' = [op |-> "Index", self |-> self, search_name |-> search_name]
         /\ result' = Index(NodeAt(menu_tree, self), search_name)
    /\ pc' = "done"
    /\ UNCHANGED <<gui, description, menu_tree, graph, visit_next, scores, estimate_scores, prev>>

InitTree ==
    /\ menu_tree \in Trees
    /\ graph = new_undirected
    /\ InitCall

NextTree == CallSearch \/ CallIndex \/ CallName \/ CallIndexStr \/ Done

SpecTree == InitTree /\ [][NextTree]_vars

(***************************************************************************)
(* SpecLoad: a DeltavMap deserialized from a JSON value                    *)
(* (serde_json::from_value) and queried afterwards.  A JSON object is a    *)
(* function on its keys, a JSON array a sequence.  The derived Deserialize *)
(* of DeltavMap reads the field menu_tree as a MenuTree and the field      *)
(* graph as an UnGraph<String, i32>, each by its own impl, and puts the    *)
(* two into the struct.                                                    *)
(***************************************************************************)
\* a description may write a handle from -1 to MaxHandle
MaxHandle == 4

\* a deserialization error: what could not be read
DeError(what) == Err([invalid |-> what])

\* serde's externally tagged form of the two variants of MenuTree
JsonMiddleNode(nm, children) == [MiddleNode |-> [name |-> nm, children |-> children]]
JsonEndNode(nm, ix) == [EndNode |-> [name |-> nm, index |-> ix]]

\* #[derive(Deserialize)] enum MenuTree: the one key of the object names
\* the variant; a NodeIndex is read as an unsigned integer
RECURSIVE deserialize_MenuTree(_)
RECURSIVE deserialize_children(_, _)
deserialize_MenuTree(j) ==
    IF DOMAIN j = {"MiddleNode"}
    THEN LET c == deserialize_children(j.MiddleNode.children, 1)
         IN  IF c.tag = "Err" THEN c
             ELSE Ok(MiddleNode(j.MiddleNode.name, c.value))
    ELSE IF DOMAIN j = {"EndNode"}
    THEN IF j.EndNode.index \in Nat
         THEN Ok(EndNode(j.EndNode.name, j.EndNode.index))
         ELSE DeError("index")
    ELSE DeError("variant")

\* Vec<MenuTree>: the elements in order from element i on, the first error ends it
deserialize_children(js, i) ==
    IF i > Len(js) THEN Ok(<<>>)
    ELSE LET t == deserialize_MenuTree(js[i])
         IN  IF t.tag = "Err" THEN t
             ELSE LET rest == deserialize_children(js, i + 1)
                  IN  IF rest.tag = "Err" THEN rest
                      ELSE Ok(<<t.value>> \o rest.value)

\* the nodes of a described graph, added in order from node i on
RECURSIVE add_nodes(_, _, _)
add_nodes(g, nodes, i) ==
    IF i > Len(nodes) THEN g ELSE add_nodes(add_node(g, nodes[i]), nodes, i + 1)

\* the edges of a described graph, linked in order from edge i on
RECURSIVE link_edges(_, _, _)
link_edges(g, es, i) ==
    IF i > Len(es) THEN g
    ELSE link_edges(add_edge(g, es[i][1], es[i][2], es[i][3]), es, i + 1)

\* petgraph's Deserialize of Graph<String, i32, Undirected>: the edge
\* property must be the graph's, a Graph has no node holes, and every edge
\* must join two of the nodes listed
deserialize_Graph(j) ==
    IF j.edge_property # "undirected" THEN DeError("edge_property")
    ELSE IF j.node_holes # <<>> THEN DeError("node_holes")
    ELSE IF \E i \in DOMAIN j.edges :
                j.edges[i][1] >= Len(j.nodes) \/ j.edges[i][2] >= Len(j.nodes)
         THEN DeError("edges")
         ELSE Ok(link_edges(add_nodes(new_undirected, j.nodes, 1), j.edges, 1))

\* #[derive(Deserialize)] struct DeltavMap { menu_tree, graph }
from_value(j) ==
    IF ~({"menu_tree", "graph"} \subseteq DOMAIN j) THEN DeError("missing field")
    ELSE LET t == deserialize_MenuTree(j.menu_tree)
             g == deserialize_Graph(j.graph)
         IN  IF t.tag = "Err" THEN t
             ELSE IF g.tag = "Err" THEN g
             ELSE Ok([menu_tree |-> t.value, graph |-> g.value])

\* the menu_tree of the documented description, with the handle of Node1
\* and the tag and the handle of Node4 as written by the description's author
DescribedTree(index1, tag4, index4) ==
    JsonMiddleNode("Category1", <<
        JsonMiddleNode("Category2", <<JsonEndNode("Node1", index1), JsonEndNode("Node2", 1)>>),
        JsonEndNode("Node3", 2),
        (tag4 :> [name |-> "Node4", index |-> index4])>>)

\* the edges a description lists: the documented three, one to a fifth
\* node and one that closes a triangle
DescribedEdges ==
    << <<0, 1, Weight12>>, <<1, 2, Weight23>>, <<2, 3, Weight34>>, <<3, 4, Weight34>>,
       <<0, 2, Weight34>> >>

\* the elements of seq at the positions S, in order, from position i on
RECURSIVE Pick(_, _, _)
Pick(seq, S, i) ==
    IF i > Len(seq) THEN <<>>
    ELSE (IF i \in S THEN <<seq[i]>> ELSE <<>>) \o Pick(seq, S, i + 1)

\* the description documented on DeltavMap
documented_description ==
    [menu_tree |-> DescribedTree(0, "EndNode", 3),
     graph |-> [nodes |-> <<"Node1", "Node2", "Node3", "Node4">>,
                node_holes |-> <<>>,
                edge_property |-> "undirected",
                edges |-> Pick(DescribedEdges, {1, 2, 3}, 1)]]

DescribedGraphs ==
    {[nodes |-> ns, node_holes |-> hs, edge_property |-> ep,
      edges |-> Pick(DescribedEdges, S, 1)] :
        ns \in {<<"Node1", "Node2", "Node3", "Node4">>, <<"Node1", "Node2", "Node3">>},
        hs \in {<<>>, <<1>>},
        ep \in {"undirected", "directed"},
        S \in SUBSET (1..Len(DescribedEdges))}

DescribedTrees ==
    {DescribedTree(index1, tag4, index4) :
        index1 \in {0, MaxHandle},
        tag4 \in {"EndNode", "Leaf"},
        index4 \in (-1)..MaxHandle}

\* the descriptions loaded: a tree and a graph, or a tree alone
Descriptions ==
    {[menu_tree |-> t, graph |-> g] : t \in DescribedTrees, g \in DescribedGraphs}
    \cup {[menu_tree |-> t] : t \in DescribedTrees}

\* before the load there is no map
Unloaded == [kind |-> "none"]

\* let deltav_map: DeltavMap = serde_json::from_value(json): the map on
\* Ok; on Err the caller's unwrap ends the program
Load ==
    /\ pc = "load"
    /\ LET r == from_value(description)
       IN  /\ call' = [op |-> "from_value"]
           /\ result' = r
           /\ IF r.tag = "Ok"
              THEN /\ menu_tree' = r.value.menu_tree
                   /\ graph' = r.value.graph
                   /\ pc' = "done"
              ELSE /\ UNCHANGED <<menu_tree, graph>>
                   /\ pc' = "failed"
    /\ UNCHANGED <<gui, description, visit_next, scores, estimate_scores, prev>>

\* an astar that keeps a visit map of the graph's size (petgraph before
\* 0.6.1) panics when it marks a popped node the graph does not have; the
\* later astar, the loop above, finds no edges at such a node.  The source
\* does not say which petgraph is built against, so both may happen.
AstarOutOfBounds ==
    /\ pc = "astar"
    /\ \E e \in MinScored(visit_next) :
         /\ is_goal(e[2], EndRef) = Return(FALSE)
         /\ e[2] >= node_count(graph)
         /\ Finish(Panic("put at index exceeds fixbitset size"))
    /\ UNCHANGED <<gui, description, menu_tree, graph, call, prev>>

InitLoad ==
    /\ gui = NoGui
    /\ description \in Descriptions
    /\ menu_tree = Unloaded
    /\ graph = Unloaded
    /\ pc = "load"
    /\ call = NoCall
    /\ result = Pending
    /\ visit_next = {}
    /\ scores = <<>>
    /\ estimate_scores = <<>>
    /\ prev = NoCall

NextLoad == Load \/ Query \/ Astar \/ AstarOutOfBounds \/ Done

SpecLoad == InitLoad /\ [][NextLoad]_vars

(***************************************************************************)
(* SpecRound: a map built in the program, serialized to a JSON value (the  *)
(* Serialize impls are derived for test builds) and deserialized again.    *)
(***************************************************************************)
\* #[derive(Serialize)] enum MenuTree
RECURSIVE serialize_MenuTree(_)
serialize_MenuTree(t) ==
    IF t.kind = "MiddleNode"
    THEN JsonMiddleNode(t.name, [i \in DOMAIN t.children |-> serialize_MenuTree(t.children[i])])
    ELSE JsonEndNode(t.name, t.index)

\* petgraph's Serialize of a Graph: the node weights in index order, no
\* holes, the edge property, the edges as (source, target, weight) in index order
serialize_Graph(g) ==
    [nodes |-> [i \in DOMAIN g.nodes |-> g.nodes[i]],
     node_holes |-> <<>>,
     edge_property |-> "undirected",
     edges |-> [i \in DOMAIN g.edges |-> <<g.edges[i][1], g.edges[i][2], g.edges[i][3]>>]]

\* the description as a slip would write it: the graph under the key "map"
to_value_wrong_key(m) ==
    [menu_tree |-> serialize_MenuTree(m.menu_tree), map |-> serialize_Graph(m.graph)]

\* #[derive(Serialize)] struct DeltavMap, through serde_json::to_value
to_value(m) ==
    [menu_tree |-> serialize_MenuTree(m.menu_tree), graph |-> serialize_Graph(m.graph)]

\* petgraph's Debug of a Graph: the counts, the ends of the edges, the
\* node weights and the edge weights
Debug(g) ==
    [Ty |-> "Undirected",
     node_count |-> Len(g.nodes),
     edge_count |-> Len(g.edges),
     edges |-> [i \in DOMAIN g.edges |-> <<g.edges[i][1], g.edges[i][2]>>],
     node_weights |-> g.nodes,
     edge_weights |-> [i \in DOMAIN g.edges |-> g.edges[i][3]]]

\* impl PartialEq for DeltavMap (test builds)
eq(self, other) ==
    /\ self.menu_tree = other.menu_tree
    /\ Debug(self.graph) = Debug(other.graph)

\* graphs on the test nodes in which two edges join Node1 and Node2
ParallelGraphs ==
    {add_edge(add_edge(add_edge(TestNodes, 0, 1, w1), ab[1], ab[2], w2), 1, 2, w3) :
        w1 \in 0..MaxWeight, w2 \in 0..MaxWeight, w3 \in 0..MaxWeight,
        ab \in {<<0, 1>>, <<1, 0>>}}

\* the maps of SpecRound: every small tree beside the test graph, and the
\* two catalog trees beside every graph
RoundCatalogs ==
    {[menu_tree |-> t, graph |-> get_test_map.graph] : t \in Trees}
    \cup {[menu_tree |-> t, graph |-> g] : t \in CatalogTrees, g \in Graphs \cup ParallelGraphs}

\* let json = serde_json::to_value(&map).unwrap()
Serialize ==
    /\ pc = "idle"
    /\ description = NoDescription
    /\ description' = to_value([menu_tree |-> menu_tree, graph |-> graph])
    /\ call' = [op |-> "to_value"]
    /\ result' = Return(description')
    /\ pc' = "done"
    /\ UNCHANGED <<gui, menu_tree, graph, visit_next, scores, estimate_scores, prev>>

\* let deserialized: Result<DeltavMap, _> = serde_json::from_value(json)
Deserialize ==
    /\ pc = "idle"
    /\ description # NoDescription
    /\ call' = [op |-> "from_value"]
    /\ result' = from_value(description)
    /\ pc' = "done"
    /\ UNCHANGED <<gui, description, menu_tree, graph, visit_next, scores, estimate_scores, prev>>

InitRound ==
    /\ \E c \in RoundCatalogs :
         /\ menu_tree = c.menu_tree
         /\ graph = c.graph
    /\ InitCall

NextRound == Serialize \/ Deserialize \/ Done

SpecRound == InitRound /\ [][NextRound]_vars

(***************************************************************************)
(* SpecBuild: a map built the way tests::get_test_map builds it.  The tree *)
(* literal is evaluated leaf by leaf in the order it is written, each      *)
(* EndNode literal calling graph.add_node for its index; the add_edge      *)
(* calls follow, their ends looked up by name in the finished tree.        *)
(***************************************************************************)
\* the literal as a slip would have it: the index written out as 0, with
\* no add_node call
Literal_fixed_index(nm, payload) == [kind |-> "EndNode", name |-> nm, index |-> 0]

\* an EndNode literal that is not evaluated yet: the name and the payload
\* its add_node call is given
Literal(nm, payload) == [kind |-> "literal", name |-> nm, payload |-> payload]

\* the tree literal that builds t: its leaves not evaluated yet
RECURSIVE Literals(_)
Literals(t) ==
    IF t.kind = "MiddleNode"
    THEN MiddleNode(t.name, [i \in DOMAIN t.children |-> Literals(t.children[i])])
    ELSE Literal(t.name, t.name)

\* the literal as a slip would have it: the index is the count after the call
EndNodeLiteral_count_after(t, g) ==
    [tree |-> EndNode(t.name, node_count(add_node(g, t.payload))),
     graph |-> add_node(g, t.payload),
     did |-> TRUE]

\* EndNode { name: String::from(..), index: graph.add_node(String::from(..)) }:
\* add_node returns the index of the node it appends
EndNodeLiteral(t, g) ==
    [tree |-> EndNode(t.name, node_count(g)),
     graph |-> add_node(g, t.payload),
     did |-> TRUE]

\* one step of evaluating the tree literal t with the graph g: the first
\* leaf literal not evaluated yet, in the order written, is evaluated
RECURSIVE evaluate(_, _)
RECURSIVE evaluate_children(_, _, _)
evaluate(t, g) ==
    IF t.kind = "literal" THEN EndNodeLiteral(t, g)
    ELSE IF t.kind = "EndNode" THEN [tree |-> t, graph |-> g, did |-> FALSE]
    ELSE evaluate_children(t, g, 1)

evaluate_children(t, g, i) ==
    IF i > Len(t.children) THEN [tree |-> t, graph |-> g, did |-> FALSE]
    ELSE LET r == evaluate(t.children[i], g)
         IN  IF r.did
             THEN [tree |-> [t EXCEPT !.children[i] = r.tree], graph |-> r.graph, did |-> TRUE]
             ELSE evaluate_children(t, g, i + 1)

\* the tree literals of SpecBuild: the test's and those of the small trees
Shapes == {Literals(t) : t \in Trees \cup {get_test_tree}}

\* the weights of the add_edge calls, in the order of the calls
WeightsInOrder == <<Weight12, Weight23, Weight34>>

\* the names tree[name].index() can be asked for: those that resolve to a leaf
LeafNames(t) ==
    {nm \in QueryNames \cup TreeNames :
        /\ search(t, nm).tag = "Ok"
        /\ NodeAt(t, search(t, nm).value).kind = "EndNode"}

\* the next EndNode literal of the tree literal
BuildLeaf ==
    /\ pc = "idle"
    /\ evaluate(menu_tree, graph).did
    /\ menu_tree' = evaluate(menu_tree, graph).tree
    /\ graph' = evaluate(menu_tree, graph).graph
    /\ call' = [op |-> "add_node"]
    /\ result' = Return(node_count(graph') - 1)
    /\ UNCHANGED <<gui, description, pc, visit_next, scores, estimate_scores, prev>>

\* graph.add_edge(menu_tree[a].index().clone(), menu_tree[b].index().clone(), weight)
BuildEdge ==
    /\ pc = "idle"
    /\ ~evaluate(menu_tree, graph).did
    /\ Len(graph.edges) < Len(WeightsInOrder)
    /\ \E a \in LeafNames(menu_tree), b \in LeafNames(menu_tree) :
         graph' = add_edge(graph, LeafIndex(menu_tree, a), LeafIndex(menu_tree, b),
                           WeightsInOrder[Len(graph.edges) + 1])
    /\ call' = [op |-> "add_edge"]
    /\ result' = Return(Len(graph.edges))
    /\ UNCHANGED <<gui, description, menu_tree, pc, visit_next, scores, estimate_scores, prev>>

InitBuild ==
    /\ menu_tree \in Shapes
    /\ graph = new_undirected
    /\ InitCall

NextBuild == BuildLeaf \/ BuildEdge

SpecBuild == InitBuild /\ [][NextBuild]_vars

(***************************************************************************)
(* SpecStock: DeltavMap::new_stock, step by step: the tree literal is      *)
(* evaluated leaf by leaf, then the add_edge calls are made in the order   *)
(* written, each looking its two ends up by name in the finished tree, and *)
(* the map is returned.                                                    *)
(***************************************************************************)
\* a line of the structure documented on new_stock: a name and what is listed under it
Documented(nm, listed) == [name |-> nm, listed |-> listed]

\* the structure documented on new_stock: every name with the names listed under it
documented_structure ==
    Documented("Kerbol System", <<
        Documented("Kerbin", <<
            Documented("Kerbin Surface", <<>>),
            Documented("Low Kerbin Orbit (80km)", <<>>),
            Documented("Keostationary Orbit (2.868Mm)", <<>>),
            Documented("Kerbin Capture", <<>>),
            Documented("Mun", <<
                Documented("Mun Intercept", <<>>),
                Documented("Low Mun Orbit (14km)", <<>>),
                Documented("Mun Surface", <<>>)>>),
            Documented("Minmus", <<
                Documented("Minmus Intercept", <<>>),
                Documented("Low Minmus Orbit (10km)", <<>>),
                Documented("Minmus Surface", <<>>)>>)>>),
        Documented("Eve", <<
            Documented("Eve Intercept", <<>>),
            Documented("Eve Capture (100km - 85Mm)", <<>>),
            Documented("Low Eve Orbit (100km)", <<>>),
            Documented("Eve Surface", <<>>),
            Documented("Gilly", <<
                Documented("Gilly Intercept", <<>>),
                Documented("Low Gilly Orbit (10km)", <<>>),
                Documented("Gilly Surface", <<>>)>>)>>),
        Documented("Duna", <<
            Documented("Duna Intercept", <<>>),
            Documented("Duna Capture (60km - 48Mm)", <<>>),
            Documented("Low Duna Orbit (60km)", <<>>),
            Documented("Duna Surface", <<>>),
            Documented("Ike", <<
                Documented("Ike Intercept", <<>>),
                Documented("Low Ike Orbit (10km)", <<>>),
                Documented("Ike Surface", <<>>)>>)>>),
        Documented("Jool", <<
            Documented("Jool Intercept", <<>>),
            Documented("Jool Capture (210km - 268Mm)", <<>>),
            Documented("Low Jool Orbit (210km)", <<>>),
            Documented("Jool Surface", <<>>),
            Documented("Pol", <<
                Documented("Pol Intercept", <<>>),
                Documented("Low Pol Orbit (10km)", <<>>),
                Documented("Pol Surface", <<>>)>>),
            Documented("Bop", <<
                Documented("Bop Intercept", <<>>),
                Documented("Low Bop Orbit (30km)", <<>>),
                Documented("Bop Surface", <<>>)>>),
            Documented("Tylo", <<
                Documented("Tylo Intercept", <<>>),
                Documented("Low Tylo Orbit (10km)", <<>>),
                Documented("Tylo Surface", <<>>)>>),
            Documented("Vall", <<
                Documented("Vall Intercept", <<>>),
                Documented("Low Vall Orbit (15km)", <<>>),
                Documented("Vall Surface", <<>>)>>),
            Documented("Laythe", <<
                Documented("Laythe Intercept", <<>>),
                Documented("Low Laythe Orbit (60km)", <<>>),
                Documented("Laythe Surface", <<>>)>>)>>),
        Documented("Dres", <<
            Documented("Dres Intercept", <<>>),
            Documented("Low Dres Orbit (12km)", <<>>),
            Documented("Dres Surface", <<>>)>>),
        Documented("Moho", <<
            Documented("Moho Intercept", <<>>),
            Documented("Low Moho Orbit (20km)", <<>>),
            Documented("Moho Surface", <<>>)>>),
        Documented("Eeloo", <<
            Documented("Eeloo Intercept", <<>>),
            Documented("Low Eeloo Orbit (10km)", <<>>),
            Documented("Eeloo Surface", <<>>)>>),
        Documented("Elliptical Kerbol Orbit (610km - 13,600Mm)", <<>>),
        Documented("Low Kerbol Orbit (610km)", <<>>),
        Documented("Kerbol Surface", <<>>)>>)

\* the tree literal as a slip would have it: the planets left out
stock_literal_short ==
    MiddleNode("Kerbol System", <<
        Literal("Elliptical Kerbol Orbit (610km - 13,600Mm)",
                "Elliptical Kerbol Orbit (610km - 13,600Mm)"),
        Literal("Low Kerbol Orbit (610km)", "Low Kerbol Orbit (610km)"),
        Literal("Kerbol Surface", "Kerbol Surface")>>)

\* the tree literal of new_stock: every EndNode literal with its name and the
\* payload its add_node call is given
stock_literal ==
    MiddleNode("Kerbol System", <<
        MiddleNode("Kerbin", <<
            Literal("Kerbin Surface", "Kerbin Surface"),
            Literal("Low Kerbin Orbit (80km)", "Low Kerbin Orbit (80km)"),
            Literal("Keostationary Orbit (2.868Mm)", "Keostationary Orbit (2.868Mm)"),
            Literal("Kerbin Capture", "Kerbin Capture"),
            MiddleNode("Mun", <<
                Literal("Mun Intercept", "Mun Intercept"),
                Literal("Low Mun Orbit (14km)", "Low Mun Orbit (14km)"),
                Literal("Mun Surface", "Mun Surface")>>),
            MiddleNode("Minmus", <<
                Literal("Minmus Intercept", "Minmus Intercept"),
                Literal("Low Minmus Orbit (10km)", "Low Minmus Orbit (10km)"),
                Literal("Minmus Surface", "Minmus Surface")>>)>>),
        MiddleNode("Eve", <<
            Literal("Eve Intercept", "Eve Intercept"),
            Literal("Eve Capture (100km - 85Mm)", "Eve Capture (100km - 85Mm)"),
            Literal("Low Eve Orbit (100km)", "Low Eve Orbit (100km)"),
            Literal("Eve Surface", "Eve Surface"),
            MiddleNode("Gilly", <<
                Literal("Gilly Intercept", "Gilly Intercept"),
                Literal("Low Gilly Orbit (10km)", "Low Gilly Orbit (10km)"),
                Literal("Gilly Surface", "Gilly Surface")>>)>>),
        MiddleNode("Duna", <<
            Literal("Duna Intercept", "Duna Intercept"),
            Literal("Duna Capture (60km - 48Mm)", "Duna Capture (60km - 48Mm)"),
            Literal("Low Duna Orbit (60km)", "Low Duna Orbit (60km)"),
            Literal("Duna Surface", "Duna Surface)"),
            MiddleNode("Ike", <<
                Literal("Ike Intercept", "Ike Intercept)"),
                Literal("Low Ike Orbit (10km)", "Low Ike Orbit (10km)"),
                Literal("Ike Surface", "Ike Surface")>>)>>),
        MiddleNode("Jool", <<
            Literal("Jool Intercept", "Jool Intercept"),
            Literal("Jool Capture (210km - 268Mm)", "Jool Capture (210km - 268Mm)"),
            Literal("Low Jool Orbit (210km)", "Low Jool Orbit (210km)"),
            Literal("Jool Surface", "Jool Surface"),
            MiddleNode("Pol", <<
                Literal("Pol Intercept", "Pol Intercept"),
                Literal("Low Pol Orbit (10km)", "Low Pol Orbit (10km)"),
                Literal("Pol Surface", "Pol Surface")>>),
            MiddleNode("Bop", <<
                Literal("Bop Intercept", "Bop Intercept"),
                Literal("Low Bop Orbit (30km)", "Low Bop Orbit (30km)"),
                Literal("Bop Surface", "Bop Surface")>>),
            MiddleNode("Tylo", <<
                Literal("Tylo Intercept", "Tylo Intercept"),
                Literal("Low Tylo Orbit (10km)", "Low Tylo Orbit (10km)"),
                Literal("Tylo Surface", "Tylo Surface")>>),
            MiddleNode("Vall", <<
                Literal("Vall Intercept", "Vall Intercept"),
                Literal("Low Vall Orbit (15km)", "Low Vall Orbit (15km)"),
                Literal("Vall Surface", "Vall Surface")>>),
            MiddleNode("Laythe", <<
                Literal("Laythe Intercept", "Laythe Intercept"),
                Literal("Low Laythe Orbit (60km)", "Low Laythe Orbit (60km)"),
                Literal("Laythe Surface", "Laythe Surface")>>)>>),
        MiddleNode("Dres", <<
            Literal("Dres Intercept", "Dres Intercept"),
            Literal("Low Dres Orbit (12km)", "Low Dres Orbit (12km)"),
            Literal("Dres Surface", "Dres Surface")>>),
        MiddleNode("Moho", <<
            Literal("Moho Intercept", "Moho Intercept"),
            Literal("Low Moho Orbit (20km)", "Low Moho Orbit (20km)"),
            Literal("Moho Surface", "Moho Surface")>>),
        MiddleNode("Eeloo", <<
            Literal("Eeloo Intercept", "Eeloo Intercept"),
            Literal("Low Eeloo Orbit (10km)", "Low Eeloo Orbit (10km)"),
            Literal("Eeloo Surface", "Eeloo Surface")>>),
        Literal("Elliptical Kerbol Orbit (610km - 13,600Mm)", "Elliptical Kerbol Orbit (610km - 13,600Mm)"),
        Literal("Low Kerbol Orbit (610km)", "Low Kerbol Orbit (610km)"),
        Literal("Kerbol Surface", "Kerbol Surface")>>)

\* the add_edge calls as a slip would have them: the first one names the
\* category Kerbin instead of a location
stock_edges_category == << <<"Kerbin Surface", "Kerbin", 3400>> >>

\* the add_edge calls of new_stock, in order: the two names looked up and the weight
stock_edges ==
    <<<<"Kerbin Surface", "Low Kerbin Orbit (80km)", 3400>>,
       <<"Low Kerbin Orbit (80km)", "Keostationary Orbit (2.868Mm)", 1115>>,
       <<"Low Kerbin Orbit (80km)", "Kerbin Capture", 950>>,
       <<"Low Kerbin Orbit (80km)", "Mun Intercept", 860>>,
       <<"Mun Intercept", "Low Mun Orbit (14km)", 280>>,
       <<"Low Mun Orbit (14km)", "Mun Surface", 580>>,
       <<"Low Kerbin Orbit (80km)", "Minmus Intercept", 930>>,
       <<"Minmus Intercept", "Low Minmus Orbit (10km)", 160>>,
       <<"Low Minmus Orbit (10km)", "Minmus Surface", 180>>,
       <<"Kerbin Capture", "Eve Intercept", 90>>,
       <<"Eve Intercept", "Eve Capture (100km - 85Mm)", 80>>,
       <<"Eve Capture (100km - 85Mm)", "Low Eve Orbit (100km)", 1350>>,
       <<"Low Eve Orbit (100km)", "Eve Surface", 8000>>,
       <<"Eve Capture (100km - 85Mm)", "Gilly Intercept", 60>>,
       <<"Gilly Intercept", "Low Gilly Orbit (10km)", 410>>,
       <<"Low Gilly Orbit (10km)", "Gilly Surface", 30>>,
       <<"Kerbin Capture", "Duna Intercept", 130>>,
       <<"Duna Intercept", "Duna Capture (60km - 48Mm)", 250>>,
       <<"Duna Capture (60km - 48Mm)", "Low Duna Orbit (60km)", 360>>,
       <<"Low Duna Orbit (60km)", "Duna Surface", 1450>>,
       <<"Duna Capture (60km - 48Mm)", "Ike Intercept", 30>>,
       <<"Ike Intercept", "Low Ike Orbit (10km)", 180>>,
       <<"Low Ike Orbit (10km)", "Ike Surface", 390>>,
       <<"Kerbin Capture", "Jool Intercept", 980>>,
       <<"Jool Intercept", "Jool Capture (210km - 268Mm)", 160>>,
       <<"Jool Capture (210km - 268Mm)", "Low Jool Orbit (210km)", 2810>>,
       <<"Low Jool Orbit (210km)", "Jool Surface", 14000>>,
       <<"Jool Capture (210km - 268Mm)", "Pol Intercept", 160>>,
       <<"Pol Intercept", "Low Pol Orbit (10km)", 820>>,
       <<"Low Pol Orbit (10km)", "Pol Surface", 130>>,
       <<"Jool Capture (210km - 268Mm)", "Bop Intercept", 220>>,
       <<"Bop Intercept", "Low Bop Orbit (30km)", 900>>,
       <<"Low Bop Orbit (30km)", "Bop Surface", 230>>,
       <<"Jool Capture (210km - 268Mm)", "Tylo Intercept", 400>>,
       <<"Tylo Intercept", "Low Tylo Orbit (10km)", 1100>>,
       <<"Low Tylo Orbit (10km)", "Tylo Surface", 2270>>,
       <<"Jool Capture (210km - 268Mm)", "Vall Intercept", 620>>,
       <<"Vall Intercept", "Low Vall Orbit (15km)", 910>>,
       <<"Low Vall Orbit (15km)", "Vall Surface", 860>>,
       <<"Jool Capture (210km - 268Mm)", "Laythe Intercept", 930>>,
       <<"Laythe Intercept", "Low Laythe Orbit (60km)", 1070>>,
       <<"Low Laythe Orbit (60km)", "Laythe Surface", 2900>>,
       <<"Kerbin Capture", "Dres Intercept", 610>>,
       <<"Dres Intercept", "Low Dres Orbit (12km)", 1290>>,
       <<"Low Dres Orbit (12km)", "Dres Surface", 430>>,
       <<"Kerbin Capture", "Moho Intercept", 760>>,
       <<"Moho Intercept", "Low Moho Orbit (20km)", 2410>>,
       <<"Low Moho Orbit (20km)", "Moho Surface", 870>>,
       <<"Kerbin Capture", "Eeloo Intercept", 1140>>,
       <<"Eeloo Intercept", "Low Eeloo Orbit (10km)", 1370>>,
       <<"Low Eeloo Orbit (10km)", "Eeloo Surface", 620>>,
       <<"Kerbin Capture", "Elliptical Kerbol Orbit (610km - 13,600Mm)", 6000>>,
       <<"Elliptical Kerbol Orbit (610km - 13,600Mm)", "Low Kerbol Orbit (610km)", 13700>>,
       <<"Low Kerbol Orbit (610km)", "Kerbol Surface", 67000>> >>

\* an add_edge call as a slip would have it: the first name is looked up
\* for both ends
wire_same_end(t, g, e) ==
    LET a == Index(t, e[1])
    IN  IF a.tag = "Panic" THEN a
        ELSE LET ai == index(NodeAt(t, a.value))
             IN  IF ai.tag = "Panic" THEN ai
                 ELSE Return(add_edge(g, ai.value, ai.value, e[3]))

\* graph.add_edge(menu_tree[a].index().clone(), menu_tree[b].index().clone(), weight)
\* for e = <<a, b, weight>>: the graph with the edge, or the panic of a lookup
wire(t, g, e) ==
    LET a == Index(t, e[1])
    IN  IF a.tag = "Panic" THEN a
        ELSE LET ai == index(NodeAt(t, a.value))
             IN  IF ai.tag = "Panic" THEN ai
                 ELSE LET b == Index(t, e[2])
                      IN  IF b.tag = "Panic" THEN b
                          ELSE LET bi == index(NodeAt(t, b.value))
                               IN  IF bi.tag = "Panic" THEN bi
                                   ELSE Return(add_edge(g, ai.value, bi.value, e[3]))

\* the next add_edge call of new_stock; a panic of a lookup ends the program
WireStock ==
    /\ pc = "idle"
    /\ ~evaluate(menu_tree, graph).did
    /\ Len(graph.edges) < Len(stock_edges)
    /\ LET e == stock_edges[Len(graph.edges) + 1]
           r == wire(menu_tree, graph, e)
       IN  /\ call' = [op |-> "add_edge", a |-> e[1], b |-> e[2]]
           /\ IF r.tag = "Panic"
              THEN /\ result' = r
                   /\ pc' = "failed"
                   /\ UNCHANGED graph
              ELSE /\ result' = Return(Len(graph.edges))
                   /\ pc' = pc
                   /\ graph' = r.value
    /\ UNCHANGED <<gui, description, menu_tree, visit_next, scores, estimate_scores, prev>>

\* DeltavMap { menu_tree, graph }
ReturnStock ==
    /\ pc = "idle"
    /\ ~evaluate(menu_tree, graph).did
    /\ Len(graph.edges) = Len(stock_edges)
    /\ call' = [op |-> "new_stock"]
    /\ result' = Return([menu_tree |-> menu_tree, graph |-> graph])
    /\ pc' = "done"
    /\ UNCHANGED <<gui, description, menu_tree, graph, visit_next, scores, estimate_scores, prev>>

InitStock ==
    /\ menu_tree = stock_literal
    /\ graph = new_undirected
    /\ InitCall

NextStock == BuildLeaf \/ WireStock \/ ReturnStock

SpecStock == InitStock /\ [][NextStock]_vars

(***************************************************************************)
(* SpecUse: the programs that use a finished map.  One is a caller of the  *)
(* library, which asks a map for its tree, searches it and asks for        *)
(* delta-v.  The other is deltav_calc_bin: build_ui gets the stock map,    *)
(* builds two buttons, a result label and a selection window with a button *)
(* for every EndNode, and its callbacks run one at a time on the main      *)
(* loop.  (The binary names the library's functions get_stock,             *)
(* get_menu_tree and get_cause_name.)                                      *)
(***************************************************************************)
\* the maps of the library's caller: the test map, the test map with a
\* fifth leaf Node5 that no edge touches, and the test map with two short
\* legs, a long one, and a long direct edge from Node1 to Node3
UseCatalogs ==
    {get_test_map,
     [menu_tree |-> five_leaf_tree,
      graph |-> PathGraph(add_node(TestNodes, "Node5"), WeightsInOrder)],
     [menu_tree |-> get_test_tree,
      graph |-> add_edge(PathGraph(TestNodes, <<Weight34, Weight34, Weight12>>),
                         LeafIndex(get_test_tree, "Node1"),
                         LeafIndex(get_test_tree, "Node3"), Weight12)]}

\* pub fn menu_tree(&self) -> &MenuTree, as a slip would have it: the tree
\* is moved out and an empty one left behind
CallMenuTree_take ==
    /\ pc = "idle"
    /\ call' = [op |-> "menu_tree"]
    /\ result' = Return(menu_tree)
    /\ menu_tree' = MiddleNode("", <<>>)
    /\ pc' = "done"
    /\ UNCHANGED <<gui, description, graph, visit_next, scores, estimate_scores, prev>>

\* pub fn menu_tree(&self) -> &MenuTree: a reference to the root
CallMenuTree ==
    /\ pc = "idle"
    /\ call' = [op |-> "menu_tree"]
    /\ result' = Return(<<>>)
    /\ pc' = "done"
    /\ UNCHANGED <<gui, description, menu_tree, graph, visit_next, scores, estimate_scores, prev>>

\* the calls of the library's caller
LibraryCall ==
    /\ gui = NoGui
    /\ \/ CallMenuTree
       \/ CallName
       \/ CallSearch
       \/ CallIndexStr
       \/ QueryRef

\* the library's caller takes the result
LibraryDone ==
    /\ gui = NoGui
    /\ Done

\* build_ui's `DeltavMap::get_stock()`: the steps of new_stock
GetStock ==
    /\ gui.stage = "get_stock"
    /\ \/ BuildLeaf
       \/ WireStock

StartLabel == "Click here to select the start"
EndLabel == "Click here to select the end"

\* the widgets of the selection window a user clicks on in the checks:
\* three leaves and a category (which is an Expander and no Button)
ClickNames == {"Kerbin Surface", "Mun Surface", "Minmus Surface", "Kerbin"}

\* build_tree as a slip would have it: a button for every node
Buttons_every_node(t) == {NodeAt(t, p).name : p \in Paths(t)}

\* build_tree: a button for every EndNode, labelled with its name
Buttons(t) == {NodeAt(t, p).name : p \in {q \in Paths(t) : NodeAt(t, q).kind = "EndNode"}}

\* build_ui up to its call of set_result: the map is there, the Selection
\* is ORIGIN, the two buttons carry their first labels, the result label is empty
BuildUi ==
    /\ gui.stage = "get_stock"
    /\ ~evaluate(menu_tree, graph).did
    /\ Len(graph.edges) = Len(stock_edges)
    /\ gui' = [stage |-> "build_ui",
               sel |-> "ORIGIN",
               origin_label |-> StartLabel,
               target_label |-> EndLabel,
               result_label |-> "",
               origin_sensitive |-> TRUE,
               target_sensitive |-> TRUE,
               select_window_visible |-> FALSE,
               window_visible |-> FALSE]
    /\ calculate_delta_v(StartLabel, EndLabel)
    /\ UNCHANGED prev

\* set_result as a slip would have it: the cause is compared with the
\* start name, and the two texts are the wrong way round
result_text_swapped(r, start) ==
    IF r.tag = "Err"
    THEN IF cause_name(r.error) = start
         THEN "The end node hasn't been selected yet"
         ELSE "The start node hasn't been selected yet"
    ELSE IF r.value = None
         THEN "There seems to be no connection between the nodes"
         ELSE ToString(r.value[1])

\* set_result's match on what calculate_delta_v returned: the text of the result label
result_text(r, start) ==
    IF r.tag = "Err"
    THEN IF cause_name(r.error) = start
         THEN "The start node hasn't been selected yet"
         ELSE "The end node hasn't been selected yet"
    ELSE IF r.value = None
         THEN "There seems to be no connection between the nodes"
         ELSE ToString(r.value[1])

\* close_selection as a slip would have it: the end button stays greyed out
close_selection_start_only(g) ==
    [g EXCEPT !.select_window_visible = FALSE,
              !.origin_sensitive = TRUE]

\* close_selection: the selection window is hidden, both buttons can be clicked
close_selection(g) ==
    [g EXCEPT !.select_window_visible = FALSE,
              !.origin_sensitive = TRUE,
              !.target_sensitive = TRUE]

\* show_selection: both buttons are greyed out, the selection window is shown
show_selection(g) ==
    [g EXCEPT !.origin_sensitive = FALSE,
              !.target_sensitive = FALSE,
              !.select_window_visible = TRUE]

\* calculate_delta_v has returned to set_result; what follows set_result
\* in build_ui is the window shown, in `selected` it is close_selection.
\* A panic of calculate_delta_v ends the program.
SetResult ==
    /\ gui.stage \in {"build_ui", "selected"}
    /\ pc = "done"
    /\ IF result.tag = "Panic"
       THEN /\ pc' = "failed"
            /\ UNCHANGED <<gui, call, result>>
       ELSE /\ pc' = "idle"
            /\ call' = NoCall
            /\ result' = Pending
            /\ gui' = IF gui.stage = "build_ui"
                      THEN [gui EXCEPT !.stage = "ready",
                                       !.result_label = result_text(result, call.start),
                                       !.window_visible = TRUE]
                      ELSE [close_selection(gui) EXCEPT
                                       !.stage = "ready",
                                       !.result_label = result_text(result, call.start)]
    /\ UNCHANGED <<description, menu_tree, graph, visit_next, scores, estimate_scores, prev>>

\* origin_button.connect_clicked
ClickOrigin ==
    /\ gui.stage = "ready"
    /\ pc = "idle"
    /\ gui.origin_sensitive
    /\ gui' = show_selection([gui EXCEPT !.sel = "ORIGIN"])
    /\ UNCHANGED <<description, menu_tree, graph, pc, call, result, visit_next, scores,
                   estimate_scores, prev>>

\* target_button.connect_clicked
ClickTarget ==
    /\ gui.stage = "ready"
    /\ pc = "idle"
    /\ gui.target_sensitive
    /\ gui' = show_selection([gui EXCEPT !.sel = "TARGET"])
    /\ UNCHANGED <<description, menu_tree, graph, pc, call, result, visit_next, scores,
                   estimate_scores, prev>>

\* `selected` as a slip would have it: the arms of the match are the wrong
\* way round
Selected_other_button ==
    /\ gui.stage = "ready"
    /\ pc = "idle"
    /\ gui.select_window_visible
    /\ \E selection \in ClickNames \cap Buttons(menu_tree) :
         /\ gui' = IF gui.sel = "ORIGIN"
                   THEN [gui EXCEPT !.stage = "selected", !.target_label = selection]
                   ELSE [gui EXCEPT !.stage = "selected", !.origin_label = selection]
         /\ calculate_delta_v(gui'.origin_label, gui'.target_label)
    /\ UNCHANGED prev

\* a leaf button of the selection window is clicked: `selected` up to the
\* call of calculate_delta_v inside set_result
Selected ==
    /\ gui.stage = "ready"
    /\ pc = "idle"
    /\ gui.select_window_visible
    /\ \E selection \in ClickNames \cap Buttons(menu_tree) :
         /\ gui' = IF gui.sel = "ORIGIN"
                   THEN [gui EXCEPT !.stage = "selected", !.origin_label = selection]
                   ELSE [gui EXCEPT !.stage = "selected", !.target_label = selection]
         /\ calculate_delta_v(gui'.origin_label, gui'.target_label)
    /\ UNCHANGED prev

\* select_window.connect_close_request
CloseRequest ==
    /\ gui.stage = "ready"
    /\ pc = "idle"
    /\ gui.select_window_visible
    /\ gui' = close_selection(gui)
    /\ UNCHANGED <<description, menu_tree, graph, pc, call, result, visit_next, scores,
                   estimate_scores, prev>>

\* either a finished map in the hands of a caller of the library, or
\* build_ui at its first statement
InitUse ==
    \/ /\ \E c \in UseCatalogs :
            /\ menu_tree = c.menu_tree
            /\ graph = c.graph
       /\ InitCall
    \/ /\ gui = [stage |-> "get_stock"]
       /\ description = NoDescription
       /\ menu_tree = stock_literal
       /\ graph = new_undirected
       /\ pc = "idle"
       /\ call = NoCall
       /\ result = Pending
       /\ visit_next = {}
       /\ scores = <<>>
       /\ estimate_scores = <<>>
       /\ prev = NoCall

NextUse ==
    \/ LibraryCall
    \/ LibraryDone
    \/ GetStock
    \/ BuildUi
    \/ Astar
    \/ SetResult
    \/ ClickOrigin
    \/ ClickTarget
    \/ Selected
    \/ CloseRequest

SpecUse == InitUse /\ [][NextUse]_vars

(***************************************************************************)
(* SpecAsk: a caller of the library that has a map, one of the test maps   *)
(* or the one new_stock builds, and asks it for the delta-v between any    *)
(* two of its locations.                                                   *)
(***************************************************************************)
\* the program is building the stock map: the steps of new_stock
AskNewStock ==
    /\ menu_tree.name = stock_literal.name
    /\ \/ BuildLeaf
       \/ WireStock

\* the map is there: a test map, or the stock map after its last add_edge
MapBuilt ==
    menu_tree.name = stock_literal.name =>
        /\ ~evaluate(menu_tree, graph).did
        /\ Len(graph.edges) = Len(stock_edges)

\* calculate_delta_v with the names of any two EndNodes of the map, or
\* with a category of the test maps
Ask ==
    /\ MapBuilt
    /\ \E start_name \in Buttons(menu_tree) \cup {"Category2"},
          end_name \in Buttons(menu_tree) \cup {"Category2"} :
         calculate_delta_v(start_name, end_name)
    /\ UNCHANGED <<gui, prev>>

InitAsk ==
    /\ \/ \E c \in UseCatalogs :
            /\ menu_tree = c.menu_tree
            /\ graph = c.graph
       \/ /\ menu_tree = stock_literal
          /\ graph = new_undirected
    /\ InitCall

NextAsk == AskNewStock \/ Ask \/ Astar \/ Done

SpecAsk == InitAsk /\ [][NextAsk]_vars

(***************************************************************************)
(* SpecTwice: a caller makes a call, keeps what it returned, and makes the *)
(* same call again on a map that is equal but for the order in which its   *)
(* edges were added.  Each of the two searches pops ties in any order.     *)
(***************************************************************************)
\* the pairs of nodes an edge of a graph of SpecTwice may join: a triangle,
\* which gives two paths between any two of its corners; Node4 stays alone
TwiceSlots == << <<0, 1>>, <<0, 2>>, <<2, 1>> >>

\* the add_edge calls for the slots in S from slot i on, with the weights w
RECURSIVE AddTwiceEdges(_, _, _, _)
AddTwiceEdges(g, S, w, i) ==
    IF i > Len(TwiceSlots) THEN g
    ELSE IF i \in S
         THEN AddTwiceEdges(add_edge(g, TwiceSlots[i][1], TwiceSlots[i][2], w[i]), S, w, i + 1)
         ELSE AddTwiceEdges(g, S, w, i + 1)

TwiceGraphs ==
    UNION {{AddTwiceEdges(TestNodes, S, w, 1) : w \in [S -> 0..MaxWeight]} :
           S \in SUBSET (1..Len(TwiceSlots))}

\* the names of the calls of SpecTwice
TwiceNames == {"Node1", "Node2", "Node3", "Node4", "Category2", "test"}

\* the graphs with the nodes of g and the add_edge calls of g in any order
Reorderings(g) ==
    {[g EXCEPT !.edges = [i \in 1..Len(g.edges) |-> g.edges[p[i]]]] :
        p \in Permutations(1..Len(g.edges))}

\* the first call: calculate_delta_v or search
TwiceFirst ==
    /\ prev = NoCall
    /\ \/ /\ \E start_name \in TwiceNames, end_name \in TwiceNames :
               calculate_delta_v(start_name, end_name)
          /\ UNCHANGED <<gui, prev>>
       \/ /\ pc = "idle"
          /\ \E search_name \in TwiceNames :
               /\ call' = [op |-> "search", self |-> <<>>, search_name |-> search_name]
               /\ result' = search(menu_tree, search_name)
          /\ pc' = "done"
          /\ UNCHANGED <<gui, description, menu_tree, graph, visit_next, scores,
                         estimate_scores, prev>>

\* the caller keeps call and result; the map the second call runs on has
\* the same tree and nodes, and the same edges added in some order
TwiceKeep ==
    /\ pc = "done"
    /\ prev = NoCall
    /\ prev' = [call |-> call, result |-> result]
    /\ graph' \in Reorderings(graph)
    /\ pc' = "idle"
    /\ call' = NoCall
    /\ result' = Pending
    /\ UNCHANGED <<gui, description, menu_tree, visit_next, scores, estimate_scores>>

\* the second call: the first one again
TwiceSecond ==
    /\ prev # NoCall
    /\ IF prev.call.op = "calculate_delta_v"
       THEN /\ calculate_delta_v(prev.call.start, prev.call.end)
            /\ UNCHANGED <<gui, prev>>
       ELSE /\ pc = "idle"
            /\ call' = prev.call
            /\ result' = search(menu_tree, prev.call.search_name)
            /\ pc' = "done"
            /\ UNCHANGED <<gui, description, menu_tree, graph, visit_next, scores,
                           estimate_scores, prev>>

InitTwice ==
    /\ menu_tree = get_test_tree
    /\ graph \in TwiceGraphs
    /\ InitCall

NextTwice == TwiceFirst \/ TwiceKeep \/ TwiceSecond \/ Astar

SpecTwice == InitTwice /\ [][NextTwice]_vars

(***************************************************************************)
(* SpecOld: the earlier tree of src/src/menutree.rs, a trait MenuTree with *)
(* the two implementors MiddleNode and EndNode, whose leaves carry an id   *)
(* and which is searched by id and by name.  A reference to a node is the  *)
(* path to it from the node the search was called on.                      *)
(***************************************************************************)
\* the width of usize in the checks
UsizeBits == 6

usize_MAX == 2 ^ UsizeBits - 1

\* MiddleNode { name, children } and EndNode { name, id } of src/src/menutree.rs
OldMiddleNode(nm, children) == [kind |-> "MiddleNode", name |-> nm, children |-> children]
OldEndNode(nm, id) == [kind |-> "EndNode", name |-> nm, id |-> id]

\* fn get_id(&self) -> usize
get_id(t) == IF t.kind = "MiddleNode" THEN usize_MAX ELSE t.id

\* search_by_id as a slip would have it: a MiddleNode compares its own id
\* first, as search_by_name compares its own name
RECURSIVE search_by_id_self_first(_, _)
RECURSIVE search_by_id_self_first_children(_, _, _)
search_by_id_self_first(t, id) ==
    IF get_id(t) = id THEN Some(<<>>)
    ELSE IF t.kind = "MiddleNode" THEN search_by_id_self_first_children(t, id, 1)
    ELSE None

search_by_id_self_first_children(t, id, i) ==
    IF i > Len(t.children) THEN None
    ELSE LET r == search_by_id_self_first(t.children[i], id)
         IN  IF r = None THEN search_by_id_self_first_children(t, id, i + 1)
             ELSE Some(<<i>> \o r[1])

\* fn search_by_id(&self, id: usize) -> Option<&dyn MenuTree>: a MiddleNode
\* asks its children in order and returns the first Some, an EndNode
\* returns itself when the id is its own
RECURSIVE search_by_id(_, _)
RECURSIVE search_by_id_children(_, _, _)
search_by_id(t, id) ==
    IF t.kind = "MiddleNode" THEN search_by_id_children(t, id, 1)
    ELSE IF t.id = id THEN Some(<<>>) ELSE None

\* `for child in &self.children` of MiddleNode::search_by_id, from child i on
search_by_id_children(t, id, i) ==
    IF i > Len(t.children) THEN None
    ELSE LET r == search_by_id(t.children[i], id)
         IN  IF r = None THEN search_by_id_children(t, id, i + 1)
             ELSE Some(<<i>> \o r[1])

\* tests::get_test_tree of src/src/menutree.rs
old_get_test_tree ==
    OldMiddleNode("Category1", <<
        OldMiddleNode("Category2", <<OldEndNode("Node1", 0), OldEndNode("Node2", 1)>>),
        OldEndNode("Node3", 2),
        OldEndNode("Node4", 3)>>)

\* the ids of the leaves of the enumerated trees: two small ones and the
\* one get_id gives for a MiddleNode
OldIds == {0, 1, usize_MAX}

\* the ids searched for: those and one no enumerated leaf has
SearchIds == OldIds \cup {2}

\* the trees of exactly n nodes, and the child lists of m nodes in all
RECURSIVE OldTreesOfSize(_)
RECURSIVE OldForests(_)
OldTreesOfSize(n) ==
    {OldMiddleNode("Category", f) : f \in OldForests(n - 1)}
    \cup (IF n = 1 THEN {OldEndNode("Node", i) : i \in OldIds} ELSE {})

OldForests(m) ==
    IF m = 0 THEN {<<>>}
    ELSE UNION {{<<t>> \o f : t \in OldTreesOfSize(k), f \in OldForests(m - k)} : k \in 1..m}

OldTrees == UNION {OldTreesOfSize(n) : n \in 1..MaxTreeNodes} \cup {old_get_test_tree}

\* self.search_by_id(id) on the node at path self
CallSearchById ==
    /\ pc = "idle"
    /\ \E self \in Paths(menu_tree), id \in SearchIds :
         /\ call' = [op |-> "search_by_id", self |-> self, id |-> id]
         /\ result' = Return(search_by_id(NodeAt(menu_tree, self), id))
    /\ pc' = "done"
    /\ UNCHANGED <<gui, description, menu_tree, graph, visit_next, scores, estimate_scores, prev>>

\* self.get_id() on the node at path self
CallGetId ==
    /\ pc = "idle"
    /\ \E self \in Paths(menu_tree) :
         /\ call' = [op |-> "get_id", self |-> self]
         /\ result' = Return(get_id(NodeAt(menu_tree, self)))
    /\ pc' = "done"
    /\ UNCHANGED <<gui, description, menu_tree, graph, visit_next, scores, estimate_scores, prev>>

InitOld ==
    /\ menu_tree \in OldTrees
    /\ graph = new_undirected
    /\ InitCall

NextOld == CallSearchById \/ CallGetId \/ Done

SpecOld == InitOld /\ [][NextOld]_vars

(***************************************************************************)
(* SpecEdge: a caller asks for a delta-v, keeps the answer, and asks again *)
(* on the map built with one more add_edge call, between any two nodes     *)
(* and with any of the weights: a new connection, a second edge between    *)
(* two nodes already joined, or a loop.                                    *)
(***************************************************************************)
\* the leaves of the test tree and one of its categories
EdgeQueryNames == {"Node1", "Node2", "Node3", "Node4", "Category2"}

\* the first call
EdgeFirst ==
    /\ prev = NoCall
    /\ \E start_name \in EdgeQueryNames, end_name \in EdgeQueryNames :
         calculate_delta_v(start_name, end_name)
    /\ UNCHANGED <<gui, prev>>

\* the caller keeps call and result; the map of the second call has one
\* more edge, added last
EdgeKeep ==
    /\ pc = "done"
    /\ prev = NoCall
    /\ \E a \in 0..(node_count(graph) - 1), b \in 0..(node_count(graph) - 1),
          weight \in 0..MaxWeight :
         /\ a <= b
         /\ graph' = add_edge(graph, a, b, weight)
         /\ prev' = [call |-> call, result |-> result, added |-> <<a, b, weight>>]
    /\ pc' = "idle"
    /\ call' = NoCall
    /\ result' = Pending
    /\ UNCHANGED <<gui, description, menu_tree, visit_next, scores, estimate_scores>>

\* the second call: the first one again
EdgeSecond ==
    /\ prev # NoCall
    /\ calculate_delta_v(prev.call.start, prev.call.end)
    /\ UNCHANGED <<gui, prev>>

InitEdge ==
    /\ menu_tree = get_test_tree
    /\ graph \in TwiceGraphs
    /\ InitCall

NextEdge == EdgeFirst \/ EdgeKeep \/ EdgeSecond \/ Astar

SpecEdge == InitEdge /\ [][NextEdge]_vars

(***************************************************************************)
(* SpecThree: a caller asks for the delta-v from a to b, then from b to c, *)
(* then from a to c, and keeps the first two answers.                      *)
(***************************************************************************)
\* the call for a and b
ThreeFirst ==
    /\ prev = NoCall
    /\ \E a \in EdgeQueryNames, b \in EdgeQueryNames : calculate_delta_v(a, b)
    /\ UNCHANGED <<gui, prev>>

\* the caller keeps the first answer
ThreeKeepFirst ==
    /\ pc = "done"
    /\ prev = NoCall
    /\ prev' = [op |-> "first", a |-> call.start, b |-> call.end, ab |-> result]
    /\ pc' = "idle"
    /\ call' = NoCall
    /\ result' = Pending
    /\ UNCHANGED <<gui, description, menu_tree, graph, visit_next, scores, estimate_scores>>

\* the call for b and c
ThreeSecond ==
    /\ prev.op = "first"
    /\ \E c \in EdgeQueryNames : calculate_delta_v(prev.b, c)
    /\ UNCHANGED <<gui, prev>>

\* the caller keeps the second answer
ThreeKeepSecond ==
    /\ pc = "done"
    /\ prev.op = "first"
    /\ prev' = [op |-> "second", a |-> prev.a, b |-> prev.b, c |-> call.end,
                ab |-> prev.ab, bc |-> result]
    /\ pc' = "idle"
    /\ call' = NoCall
    /\ result' = Pending
    /\ UNCHANGED <<gui, description, menu_tree, graph, visit_next, scores, estimate_scores>>

\* the call for a and c
ThreeThird ==
    /\ prev.op = "second"
    /\ calculate_delta_v(prev.a, prev.c)
    /\ UNCHANGED <<gui, prev>>

InitThree ==
    /\ menu_tree = get_test_tree
    /\ graph \in TwiceGraphs
    /\ InitCall

NextThree ==
    ThreeFirst \/ ThreeKeepFirst \/ ThreeSecond \/ ThreeKeepSecond \/ ThreeThird \/ Astar

SpecThree == InitThree /\ [][NextThree]_vars

(***************************************************************************)
(* SpecYaml: from_yaml of src/src/menutree.rs, which reads a tree of the   *)
(* earlier kind from a YAML mapping.  A mapping is a function on its keys, *)
(* a sequence a sequence.  A category is written with the keys name and    *)
(* children, a leaf with the keys name and id.                             *)
(***************************************************************************)
\* the panic of Option::unwrap on None (the message, without its quotation marks)
UnwrapNone == "called Option::unwrap() on a None value"

\* read_end: name and id of the mapping; unwrap panics when a key is missing
read_end(yaml) ==
    IF "name" \notin DOMAIN yaml \/ "id" \notin DOMAIN yaml THEN Panic(UnwrapNone)
    ELSE Return(OldEndNode(yaml["name"], yaml["id"]))

\* read_middle: name and children of the mapping, each child read in
\* order; the test inside the loop is made on `yaml`, the mapping whose
\* children are read, and not on `child`
RECURSIVE read_middle(_)
RECURSIVE read_children(_, _, _)
read_middle(yaml) ==
    IF "name" \notin DOMAIN yaml \/ "children" \notin DOMAIN yaml THEN Panic(UnwrapNone)
    ELSE LET children == read_children(yaml, yaml["children"], 1)
         IN  IF children.tag = "Panic" THEN children
             ELSE Return(OldMiddleNode(yaml["name"], children.value))

\* `for child in children_yaml` from child i on
read_children(yaml, children_yaml, i) ==
    IF i > Len(children_yaml) THEN Return(<<>>)
    ELSE LET child == children_yaml[i]
             r == IF "children" \in DOMAIN yaml THEN read_middle(child) ELSE read_end(child)
         IN  IF r.tag = "Panic" THEN r
             ELSE LET rest == read_children(yaml, children_yaml, i + 1)
                  IN  IF rest.tag = "Panic" THEN rest
                      ELSE Return(<<r.value>> \o rest.value)

\* fn from_yaml(yaml: &serde_yaml::Mapping) -> Box<dyn MenuTree>
from_yaml(yaml) ==
    IF "children" \in DOMAIN yaml THEN read_middle(yaml) ELSE read_end(yaml)

\* the mapping a tree is written as
RECURSIVE yaml_of(_)
yaml_of(t) ==
    IF t.kind = "MiddleNode"
    THEN [name |-> t.name, children |-> [i \in DOMAIN t.children |-> yaml_of(t.children[i])]]
    ELSE [name |-> t.name, id |-> t.id]

\* the mappings read: one for every tree of SpecOld
YamlMappings == {yaml_of(t) : t \in OldTrees}

\* from_yaml is called; a panic ends the program
FromYaml ==
    /\ pc = "load"
    /\ LET r == from_yaml(description.yaml)
       IN  /\ call' = [op |-> "from_yaml"]
           /\ result' = r
           /\ IF r.tag = "Panic"
              THEN /\ pc' = "failed"
                   /\ UNCHANGED menu_tree
              ELSE /\ pc' = "done"
                   /\ menu_tree' = r.value
    /\ UNCHANGED <<gui, description, graph, visit_next, scores, estimate_scores, prev>>

InitYaml ==
    /\ gui = NoGui
    /\ description \in {[kind |-> "yaml", yaml |-> y] : y \in YamlMappings}
    /\ menu_tree = Unloaded
    /\ graph = new_undirected
    /\ pc = "load"
    /\ call = NoCall
    /\ result = Pending
    /\ visit_next = {}
    /\ scores = <<>>
    /\ estimate_scores = <<>>
    /\ prev = NoCall

NextYaml == FromYaml \/ CallSearchById \/ CallGetId \/ Done

SpecYaml == InitYaml /\ [][NextYaml]_vars

(***************************************************************************)
(* SpecOldStock: the earlier constructor `stock` of src/src/lib.rs.  It    *)
(* writes the tree with the ids of its leaves given as numbers, adds the   *)
(* nodes of the graph one by one, keeping the indices in the array         *)
(* `nodes`, and adds the edges between entries of that array.              *)
(***************************************************************************)
\* the tree literal of stock
old_stock_tree ==
    OldMiddleNode("Kerbol System", <<
        OldMiddleNode("Kerbin", <<
            OldEndNode("Kerbin Landed", 0),
            OldEndNode("Low Kerbin Orbit (80km)", 1),
            OldEndNode("Keostationary Orbit (2863.33km)", 2),
            OldEndNode("Kerbin Intercept", 3),
            OldMiddleNode("Mun", <<
                OldEndNode("Mun Intercept", 4),
                OldEndNode("Low Mun Orbit (14km)", 5),
                OldEndNode("Mun Landed", 6)>>),
            OldMiddleNode("Minmus", <<
                OldEndNode("Minmus Intercept", 7),
                OldEndNode("Low Minmus Orbit (10km)", 8),
                OldEndNode("Minmus Landed", 9)>>)>>),
        OldEndNode("Low Kerbol Transfer Orbit (610km - 13,600Mm)", 10),
        OldEndNode("Low Kerbol Orbit (610km)", 11),
        OldEndNode("Kerbol Surface", 12),
        OldMiddleNode("Moho", <<
            OldEndNode("Moho Intercept", 13),
            OldEndNode("Low Moho Orbit (20km)", 14),
            OldEndNode("Moho Landed", 15)>>),
        OldMiddleNode("Eve", <<
            OldEndNode("Eve Intercept", 16),
            OldEndNode("Eve Capture (100km - 85 Mm)", 17),
            OldEndNode("Low Eve Orbit (100km)", 18),
            OldEndNode("Eve Landed", 19),
            OldMiddleNode("Gilly", <<
                OldEndNode("Gilly Intercept", 20),
                OldEndNode("Low Gilly Orbit (10km)", 21),
                OldEndNode("Gilly Landed", 22)>>)>>),
        OldMiddleNode("Duna", <<
            OldEndNode("Duna Intercept", 23),
            OldEndNode("Duna Capture (60km - 48Mm)", 24),
            OldEndNode("Low Duna Orbit (60km)", 25),
            OldEndNode("Duna Landed", 26),
            OldMiddleNode("Ike", <<
                OldEndNode("Ike Intercept", 27),
                OldEndNode("Low Ike Orbit (10km)", 28),
                OldEndNode("Ike Landed", 29)>>)>>),
        OldMiddleNode("Dres", <<
            OldEndNode("Dres Intercept", 30),
            OldEndNode("Low Dres Orbit (12km)", 31),
            OldEndNode("Dres Landed", 32)>>)>>)

\* the arguments of the add_node calls that fill the array `nodes`, in order
old_stock_nodes == [k \in 1..32 |-> k - 1]

\* the add_edge calls of stock, in order: the two positions in `nodes` and the weight
old_stock_edges ==
    <<<<0, 1, 3400>>,
      <<1, 2, 1115>>,
      <<2, 3, 930>>,
      <<1, 4, 860>>,
      <<4, 5, 280>>,
      <<5, 6, 580>>,
      <<1, 7, 930>>,
      <<7, 8, 150>>,
      <<8, 9, 180>>,
      <<3, 10, 6000>>,
      <<10, 11, 13700>>,
      <<11, 12, 67000>>,
      <<3, 13, 760>>,
      <<13, 14, 2400>>,
      <<14, 15, 870>>,
      <<16, 17, 80>>,
      <<17, 18, 1300>>,
      <<18, 19, 8000>>,
      <<16, 20, 60>>,
      <<20, 21, 410>>,
      <<21, 22, 30>>,
      <<3, 23, 130>>,
      <<23, 24, 250>>,
      <<24, 25, 360>>,
      <<25, 26, 1450>>,
      <<24, 27, 30>>,
      <<27, 28, 150>>,
      <<28, 29, 150>>,
      <<3, 30, 610>>,
      <<30, 31, 1300>>>>

\* the next graph.add_node(k) of the array `nodes`
OldStockAddNode ==
    /\ pc = "stock"
    /\ node_count(graph) < Len(old_stock_nodes)
    /\ graph' = add_node(graph, old_stock_nodes[node_count(graph) + 1])
    /\ call' = [op |-> "add_node"]
    /\ result' = Return(node_count(graph))
    /\ UNCHANGED <<gui, description, menu_tree, pc, visit_next, scores, estimate_scores, prev>>

\* the next graph.add_edge(nodes[a], nodes[b], weight): nodes[a] is the
\* index the add_node call at position a returned, which is a
OldStockAddEdge ==
    /\ pc = "stock"
    /\ node_count(graph) = Len(old_stock_nodes)
    /\ Len(graph.edges) < Len(old_stock_edges)
    /\ LET e == old_stock_edges[Len(graph.edges) + 1]
       IN  graph' = add_edge(graph, e[1], e[2], e[3])
    /\ call' = [op |-> "add_edge"]
    /\ result' = Return(Len(graph.edges))
    /\ UNCHANGED <<gui, description, menu_tree, pc, visit_next, scores, estimate_scores, prev>>

\* DeltavMap {menu_tree, graph}
OldStockReturn ==
    /\ pc = "stock"
    /\ node_count(graph) = Len(old_stock_nodes)
    /\ Len(graph.edges) = Len(old_stock_edges)
    /\ call' = [op |-> "stock"]
    /\ result' = Return([menu_tree |-> menu_tree, graph |-> graph])
    /\ pc' = "done"
    /\ UNCHANGED <<gui, description, menu_tree, graph, visit_next, scores, estimate_scores, prev>>

InitOldStock ==
    /\ gui = NoGui
    /\ description = NoDescription
    /\ menu_tree = old_stock_tree
    /\ graph = new_undirected
    /\ pc = "stock"
    /\ call = NoCall
    /\ result = Pending
    /\ visit_next = {}
    /\ scores = <<>>
    /\ estimate_scores = <<>>
    /\ prev = NoCall

NextOldStock ==
    OldStockAddNode \/ OldStockAddEdge \/ OldStockReturn \/ CallSearchById \/ CallGetId \/ Done

SpecOldStock == InitOldStock /\ [][NextOldStock]_vars

(***************************************************************************)
(* Reference notions the claims are stated with.  They are defined on the  *)
(* tree and the graph alone: none of them uses search, edges or astar.     *)
(***************************************************************************)
\* the nodes of t named s
Named(t, s) == {p \in Paths(t) : NodeAt(t, p).name = s}

IsPrefix(p, q) == Len(p) <= Len(q) /\ SubSeq(q, 1, Len(p)) = p

\* p comes before q in pre-order: p is an ancestor of q, or p branches off
\* to an earlier child where the two part
Precedes(p, q) ==
    /\ p # q
    /\ \/ IsPrefix(p, q)
       \/ \E i \in 1..Len(p) :
            /\ i <= Len(q)
            /\ SubSeq(p, 1, i - 1) = SubSeq(q, 1, i - 1)
            /\ p[i] < q[i]

\* the node a name stands for: the first one in pre-order that carries it
Resolved(s) ==
    NodeAt(menu_tree,
           CHOOSE p \in Named(menu_tree, s) : \A q \in Named(menu_tree, s) : q = p \/ Precedes(p, q))

InTree(s) == Named(menu_tree, s) # {}
IsLocation(s) == InTree(s) /\ Resolved(s).kind = "EndNode"
IsCategory(s) == InTree(s) /\ Resolved(s).kind = "MiddleNode"

Vertices == 0..(node_count(graph) - 1)

\* the weights of the edges that join u and v, in either direction
WeightsBetween(u, v) ==
    {graph.edges[i][3] : i \in {j \in DOMAIN graph.edges :
                                 {graph.edges[j][1], graph.edges[j][2]} = {u, v}}}

Least(S) == CHOOSE x \in S : \A y \in S : x <= y

\* the simple paths from a to b: no vertex twice, an edge between neighbours
SimplePaths(a, b) ==
    {p \in UNION {[1..n -> Vertices] : n \in 1..Cardinality(Vertices)} :
        /\ p[1] = a
        /\ p[Len(p)] = b
        /\ \A i, j \in 1..Len(p) : i # j => p[i] # p[j]
        /\ \A i \in 1..(Len(p) - 1) : WeightsBetween(p[i], p[i + 1]) # {}}

\* the cost of the path p from its i-th vertex on, by its cheapest edges
RECURSIVE PathCost(_, _)
PathCost(p, i) ==
    IF i >= Len(p) THEN 0
    ELSE Least(WeightsBetween(p[i], p[i + 1])) + PathCost(p, i + 1)

\* the all-paths minimum
MinPathCost(a, b) == Least({PathCost(p, 1) : p \in SimplePaths(a, b)})

\* the connected component of the vertices S
RECURSIVE Component(_)
Component(S) ==
    LET T == S \cup {v \in Vertices : \E u \in S : WeightsBetween(u, v) # {}}
    IN  IF T = S THEN S ELSE Component(T)

\* a call of calculate_delta_v has returned (or panicked)
DeltaVDone == pc = "done" /\ call.op = "calculate_delta_v"
BothLocations == IsLocation(call.start) /\ IsLocation(call.end)
StartIndex == Resolved(call.start).index
EndIndex == Resolved(call.end).index

(***************************************************************************)
(* The claims.                                                             *)
(***************************************************************************)
\* C1: on every catalog (the weights are never negative), when both names
\* are locations of the tree and a path joins their vertices,
\* calculate_delta_v returns Ok(Some(c)) with c the minimum, over all paths
\* between the two vertices, of the sum of the weights on the path.
C1_MinimumCost ==
    (DeltaVDone /\ BothLocations /\ SimplePaths(StartIndex, EndIndex) # {})
        => result = Ok(Some(MinPathCost(StartIndex, EndIndex)))

\* C1's case: the cheapest path is not the direct edge between the two
C1_Witness ==
    /\ DeltaVDone /\ BothLocations
    /\ StartIndex # EndIndex
    /\ WeightsBetween(StartIndex, EndIndex) # {}
    /\ result.tag = "Ok" /\ result.value # None
    /\ result.value[1] > 0
    /\ result.value[1] < Least(WeightsBetween(StartIndex, EndIndex))

\* C2: for two locations of the tree, calculate_delta_v returns Ok(None)
\* exactly when their vertices lie in different connected components; so a
\* leaf whose vertex has no edge gets Ok(None) against every other vertex.
C2_NoneIffDisconnected ==
    (DeltaVDone /\ BothLocations)
        => /\ result.tag = "Ok"
           /\ (result = Ok(None)) <=> (EndIndex \notin Component({StartIndex}))

\* C2's case: the start's vertex has no edge while the graph has some
C2_Witness ==
    /\ DeltaVDone /\ BothLocations
    /\ result = Ok(None)
    /\ Component({StartIndex}) = {StartIndex}
    /\ \A v \in Vertices : WeightsBetween(StartIndex, v) = {}
    /\ Len(graph.edges) >= 2

\* C3: calculate_delta_v(name, name) of a location is Ok(Some(0)), whatever
\* edges touch its vertex.
C3_SelfIsZero ==
    (DeltaVDone /\ call.start = call.end /\ IsLocation(call.start))
        => result = Ok(Some(0))

\* C3's case: the vertex has a self-loop that costs and a free edge to another
C3_Witness ==
    /\ DeltaVDone /\ call.start = call.end /\ IsLocation(call.start)
    /\ result = Ok(Some(0))
    /\ WeightsBetween(StartIndex, StartIndex) # {}
    /\ 0 \notin WeightsBetween(StartIndex, StartIndex)
    /\ \E v \in Vertices \ {StartIndex} : 0 \in WeightsBetween(StartIndex, v)

\* C4: asked for two locations one way and then the other way round,
\* calculate_delta_v gives the same answer both times.
C4_Symmetric ==
    (DeltaVDone /\ prev # NoCall /\ BothLocations) => result = prev.result

\* C4's case: the two answers are a cost above zero
C4_Witness ==
    /\ DeltaVDone /\ prev # NoCall /\ BothLocations
    /\ StartIndex # EndIndex
    /\ result.tag = "Ok" /\ result.value # None /\ result.value[1] > 0
    /\ result = prev.result

\* C5: the start name is resolved first: a start that is not in the tree
\* gives Err(NoSuchNodeError) naming the start whatever the end is; a start
\* in the tree with an end that is not gives the error naming the end.
C5_ErrorNamesTheFailure ==
    DeltaVDone =>
        /\ ~InTree(call.start)
             => result.tag = "Err" /\ cause_name(result.error) = call.start
        /\ (InTree(call.start) /\ ~InTree(call.end))
             => result.tag = "Err" /\ cause_name(result.error) = call.end

\* C5's case: neither name is in the tree and the two differ
C5_Witness ==
    /\ DeltaVDone
    /\ ~InTree(call.start) /\ ~InTree(call.end) /\ call.start # call.end
    /\ result = Err(NoSuchNodeError(call.start))

\* a call of search has returned: the node it was called on, the name sought
SearchDone == pc = "done" /\ call.op = "search"
SearchSelf == NodeAt(menu_tree, call.self)

\* some path of t is at least n long
Deep(t, n) == \E p \in Paths(t) : Len(p) >= n

\* C6: t.search(s) returns Ok(n) exactly when some node of the subtree t is
\* named s, letter case included, and n is then a node of t named s;
\* otherwise it returns Err(NoSuchNodeError) whose name is s, at any depth.
C6_SearchFindsExactly ==
    SearchDone =>
        /\ (result.tag = "Ok") <=> (Named(SearchSelf, call.search_name) # {})
        /\ result.tag = "Ok" => result.value \in Named(SearchSelf, call.search_name)
        /\ result.tag # "Ok" => result = Err(NoSuchNodeError(call.search_name))

\* C6's case: the search fails three levels deep past a name that differs
\* from the one sought in case only
C6_Witness ==
    /\ SearchDone
    /\ call.self = <<>>
    /\ Deep(menu_tree, 3)
    /\ call.search_name = "Node1"
    /\ \E p \in Named(menu_tree, "node1") : Len(p) = 3
    /\ result.tag = "Err" /\ cause_name(result.error) = "Node1"

\* C7: of several nodes that carry the name sought, search returns the
\* first in pre-order: a node before its descendants, an earlier sibling's
\* subtree before a later sibling's.
C7_SearchFirstInPreOrder ==
    (SearchDone /\ result.tag = "Ok")
        => \A q \in Named(SearchSelf, call.search_name) :
               q = result.value \/ Precedes(result.value, q)

\* C7's case: the category found has a descendant and a later sibling of
\* the same name
C7_Witness ==
    /\ SearchDone /\ result.tag = "Ok"
    /\ NodeAt(SearchSelf, result.value).kind = "MiddleNode"
    /\ result.value # <<>>
    /\ \E q \in Named(SearchSelf, call.search_name) :
         q # result.value /\ IsPrefix(result.value, q)
    /\ \E q \in Named(SearchSelf, call.search_name) :
         ~IsPrefix(result.value, q) /\ Precedes(result.value, q)

\* the graph is the path Node1 - Node2 - Node3 - Node4 and nothing else
PathShaped ==
    /\ Len(graph.edges) = 3
    /\ \A i \in 1..3 : graph.edges[i][1] = i - 1 /\ graph.edges[i][2] = i

\* the weights of the edges lo + 1 .. hi of the path
RECURSIVE SumOfEdges(_, _)
SumOfEdges(lo, hi) ==
    IF lo >= hi THEN 0 ELSE graph.edges[hi][3] + SumOfEdges(lo, hi - 1)

\* C8: on the catalog of get_test_map, calculate_delta_v("Node1", "Node4")
\* is Ok(Some(1030)); on a path-shaped graph the cost between two leaves is
\* the sum of the weights of the edges between them.
C8_ReferenceCost ==
    DeltaVDone =>
        /\ ([menu_tree |-> menu_tree, graph |-> graph] = get_test_map
              /\ call.start = "Node1" /\ call.end = "Node4")
             => result = Ok(Some(1030))
        /\ (PathShaped /\ BothLocations /\ StartIndex <= 3 /\ EndIndex <= 3)
             => result = Ok(Some(IF StartIndex <= EndIndex
                                 THEN SumOfEdges(StartIndex, EndIndex)
                                 ELSE SumOfEdges(EndIndex, StartIndex)))

\* C8's case: the test's own call on the test's own catalog
C8_Witness ==
    /\ DeltaVDone
    /\ [menu_tree |-> menu_tree, graph |-> graph] = get_test_map
    /\ graph.edges = << <<0, 1, 900>>, <<1, 2, 80>>, <<2, 3, 50>> >>
    /\ call.start = "Node1" /\ call.end = "Node4"
    /\ result = Ok(Some(1030))

\* C9: when both names are in the tree and the start or the end resolves
\* to a category, calculate_delta_v panics with "MiddleNodes don't have
\* indices".
C9_CategoryPanics ==
    (DeltaVDone /\ InTree(call.start) /\ InTree(call.end)
        /\ (IsCategory(call.start) \/ IsCategory(call.end)))
        => result = Panic("MiddleNodes don't have indices")

\* C9's case: a location as start and a category as end
C9_Witness ==
    /\ DeltaVDone
    /\ IsLocation(call.start) /\ IsCategory(call.end)
    /\ result.tag = "Panic"

\* C10: index() returns the stored index of every EndNode and panics with
\* "MiddleNodes don't have indices" on every MiddleNode; name() returns the
\* name of either.
C10_IndexAndName ==
    /\ (pc = "done" /\ call.op = "index")
         => IF NodeAt(menu_tree, call.self).kind = "EndNode"
            THEN result = Return(NodeAt(menu_tree, call.self).index)
            ELSE result = Panic("MiddleNodes don't have indices")
    /\ (pc = "done" /\ call.op = "name")
         => result = Return(NodeAt(menu_tree, call.self).name)

\* C10's case: index() on a category that has children
C10_Witness ==
    /\ pc = "done" /\ call.op = "index"
    /\ NodeAt(menu_tree, call.self).kind = "MiddleNode"
    /\ NodeAt(menu_tree, call.self).children # <<>>
    /\ result.tag = "Panic"

\* C11: tree[name] is search(name) with a panic for the error: it yields
\* the node search returns when that is Ok, and panics with 'There is no
\* node with the name "<name>" in the tree' exactly when search is Err.
C11_IndexIsSearch ==
    (pc = "done" /\ call.op = "Index") =>
        LET r == search(SearchSelf, call.search_name)
        IN  /\ r.tag = "Ok" => result = Return(r.value)
            /\ (result.tag = "Panic") <=> (r.tag = "Err")
            /\ r.tag = "Err" =>
                  result = Panic("There is no node with the name \"" \o call.search_name
                                 \o "\" in the tree")

\* C11's case: the name is missing below a category whose sibling has it
C11_Witness ==
    /\ pc = "done" /\ call.op = "Index"
    /\ call.self # <<>>
    /\ SearchSelf.kind = "MiddleNode" /\ SearchSelf.children # <<>>
    /\ Named(menu_tree, call.search_name) # {}
    /\ result = Panic("There is no node with the name \"" \o call.search_name \o "\" in the tree")

\* the handles the leaves of the tree t hold
LeafHandles(t) == {NodeAt(t, p).index : p \in {q \in Paths(t) : NodeAt(t, q).kind = "EndNode"}}

\* the handles a described tree writes on its EndNodes
RECURSIVE DescribedHandles(_)
DescribedHandles(j) ==
    IF "EndNode" \in DOMAIN j THEN {j.EndNode.index}
    ELSE IF "MiddleNode" \in DOMAIN j
         THEN UNION {DescribedHandles(j.MiddleNode.children[i]) :
                       i \in DOMAIN j.MiddleNode.children}
         ELSE {}

\* the description writes a handle for which its graph lists no node
Dangling(j) ==
    /\ {"menu_tree", "graph"} \subseteq DOMAIN j
    /\ \E h \in DescribedHandles(j.menu_tree) : h \notin 0..(Len(j.graph.nodes) - 1)

\* C12: loading a description whose menu_tree holds a leaf with a handle
\* that no vertex of its graph matches fails with a deserialization error;
\* no map with a dangling leaf handle is ever returned, so none is met at
\* query time.
C12_LoadRejectsDangling ==
    /\ (call.op = "from_value" /\ Dangling(description)) => result.tag = "Err"
    /\ pc \in {"idle", "astar"} => LeafHandles(menu_tree) \subseteq Vertices

\* C12's case: a map was loaded and the start of a query resolves to a
\* handle the graph has no vertex for
C12_Witness ==
    /\ DeltaVDone /\ BothLocations
    /\ Dangling(description)
    /\ StartIndex \notin Vertices /\ EndIndex \in Vertices
    /\ result \in {Ok(None), Panic("put at index exceeds fixbitset size")}

\* how often e occurs in the sequence seq
Occurrences(seq, e) == Cardinality({i \in DOMAIN seq : seq[i] = e})

\* the elements of the sequence seq
Range(seq) == {seq[i] : i \in DOMAIN seq}

\* C13: a map built in the program, serialized to the description format
\* and deserialized from it, comes back with the same tree (names, child
\* order, leaf handles), the same vertex list and the same edges with the
\* same weights, each as often as before; the two maps are equal.
C13_RoundTrip ==
    (pc = "done" /\ call.op = "from_value") =>
        /\ result.tag = "Ok"
        /\ result.value.menu_tree = menu_tree
        /\ result.value.graph.nodes = graph.nodes
        /\ \A e \in Range(graph.edges) \cup Range(result.value.graph.edges) :
               Occurrences(result.value.graph.edges, e) = Occurrences(graph.edges, e)
        /\ eq(result.value, [menu_tree |-> menu_tree, graph |-> graph])

\* C13's case: the map has a category inside a category and the same edge twice
C13_Witness ==
    /\ pc = "done" /\ call.op = "from_value"
    /\ Deep(menu_tree, 2)
    /\ \E e \in Range(graph.edges) : Occurrences(graph.edges, e) = 2
    /\ result.tag = "Ok"
    /\ description.graph.edges = graph.edges

\* the leaves of t, evaluated or not, and those evaluated
LeafPaths(t) == {p \in Paths(t) : NodeAt(t, p).kind # "MiddleNode"}
EvaluatedPaths(t) == {p \in Paths(t) : NodeAt(t, p).kind = "EndNode"}

\* how many leaves of t come before the leaf at p in depth-first order
LeavesBefore(t, p) == Cardinality({q \in LeafPaths(t) : Precedes(q, p)})

\* C14: add_node hands out the handles 0, 1, 2, ... in the order of its
\* calls and no later add_node or add_edge changes one: at every point of
\* the construction each leaf evaluated so far holds the number of leaves
\* before it in depth-first order, and that vertex carries the payload the
\* leaf was added with.  So the test map built in the program is the map
\* deserialized from the documented description with the indices 0..3.
C14_HandlesInLeafOrder ==
    /\ node_count(graph) = Cardinality(EvaluatedPaths(menu_tree))
    /\ \A p \in EvaluatedPaths(menu_tree) :
         /\ NodeAt(menu_tree, p).index = LeavesBefore(menu_tree, p)
         /\ graph.nodes[NodeAt(menu_tree, p).index + 1] = NodeAt(menu_tree, p).name
    /\ call.op = "add_node" => result = Return(node_count(graph) - 1)
    /\ (/\ Literals(menu_tree) = Literals(get_test_tree)
        /\ EvaluatedPaths(menu_tree) = LeafPaths(menu_tree)
        /\ graph.edges = << <<0, 1, Weight12>>, <<1, 2, Weight23>>, <<2, 3, Weight34>> >>)
         => /\ [menu_tree |-> menu_tree, graph |-> graph] = get_test_map
            /\ from_value(documented_description).tag = "Ok"
            /\ eq(from_value(documented_description).value,
                  [menu_tree |-> menu_tree, graph |-> graph])

\* C14's case: the test map is complete, built leaf by leaf and edge by edge
C14_Witness ==
    /\ Literals(menu_tree) = Literals(get_test_tree)
    /\ EvaluatedPaths(menu_tree) = LeafPaths(menu_tree)
    /\ call.op = "add_edge"
    /\ graph.edges = << <<0, 1, 900>>, <<1, 2, 80>>, <<2, 3, 50>> >>
    /\ NodeAt(menu_tree, <<3>>).index = 3
    /\ eq(from_value(documented_description).value, [menu_tree |-> menu_tree, graph |-> graph])

\* C17: in the map new_stock builds and returns, every EndNode's handle is
\* a vertex of the graph, no two EndNodes share a handle, every vertex is
\* the handle of exactly one EndNode, and every edge joins two handles of
\* leaves.  It holds of the map at every step of its construction.
C17_StockBijection ==
    LET L == EvaluatedPaths(menu_tree)
    IN  /\ \A p \in L : NodeAt(menu_tree, p).index \in Vertices
        /\ \A p, q \in L : p # q => NodeAt(menu_tree, p).index # NodeAt(menu_tree, q).index
        /\ \A v \in Vertices : Cardinality({p \in L : NodeAt(menu_tree, p).index = v}) = 1
        /\ \A i \in DOMAIN graph.edges :
             /\ graph.edges[i][1] \in LeafHandles(menu_tree)
             /\ graph.edges[i][2] \in LeafHandles(menu_tree)
        /\ (pc = "done" /\ call.op = "new_stock")
             => result = Return([menu_tree |-> menu_tree, graph |-> graph])

\* C17's case: new_stock has returned its map of 55 leaves and 54 edges
C17_Witness ==
    /\ pc = "done" /\ call.op = "new_stock"
    /\ result.value.graph = graph
    /\ Cardinality(EvaluatedPaths(menu_tree)) = 55
    /\ node_count(graph) = 55
    /\ Len(graph.edges) = 54

\* C18: in the tree of new_stock all names are pairwise distinct,
\* categories and locations together, so search(n) for the name n of a node
\* returns that node; and every tree[name] lookup of the edge wiring
\* resolves to an EndNode: none panics, none finds a category.
C18_StockNamesDistinct ==
    /\ \A p, q \in Paths(menu_tree) :
         p # q => NodeAt(menu_tree, p).name # NodeAt(menu_tree, q).name
    /\ pc # "failed"
    /\ result.tag # "Panic"
    /\ EvaluatedPaths(menu_tree) = LeafPaths(menu_tree) =>
         /\ \A p \in Paths(menu_tree) : search(menu_tree, NodeAt(menu_tree, p).name) = Ok(p)
         /\ \A i \in DOMAIN stock_edges : \A k \in 1..2 :
              /\ Index(menu_tree, stock_edges[i][k]).tag = "Return"
              /\ NodeAt(menu_tree, Index(menu_tree, stock_edges[i][k]).value).kind = "EndNode"

\* C18's case: the last add_edge call has looked up its two names
C18_Witness ==
    /\ pc = "idle" /\ call.op = "add_edge"
    /\ call.a = "Low Kerbol Orbit (610km)" /\ call.b = "Kerbol Surface"
    /\ Len(graph.edges) = Len(stock_edges)
    /\ graph.edges[Len(graph.edges)] = <<53, 54, 67000>>
    /\ Cardinality({NodeAt(menu_tree, p).name : p \in Paths(menu_tree)}) = 72

\* the names of t and of what is under it, as the documentation lists them
RECURSIVE Outline(_)
Outline(t) ==
    Documented(t.name,
               IF t.kind = "MiddleNode"
               THEN [i \in DOMAIN t.children |-> Outline(t.children[i])]
               ELSE <<>>)

\* C19: the tree new_stock builds has the structure documented on the
\* function: the root "Kerbol System" with its ten children in the
\* documented order, and under every documented category exactly the
\* documented categories and locations, by name and in order.
C19_StockStructure ==
    /\ Outline(menu_tree) = documented_structure
    /\ menu_tree.name = "Kerbol System"
    /\ [i \in DOMAIN menu_tree.children |-> menu_tree.children[i].name]
         = <<"Kerbin", "Eve", "Duna", "Jool", "Dres", "Moho", "Eeloo",
             "Elliptical Kerbol Orbit (610km - 13,600Mm)", "Low Kerbol Orbit (610km)",
             "Kerbol Surface">>
    /\ \A p \in Paths(menu_tree) :
         (NodeAt(menu_tree, p).kind = "MiddleNode") <=> (Outline(NodeAt(menu_tree, p)).listed # <<>>)
    /\ (pc = "done" /\ call.op = "new_stock") => result.value.menu_tree = menu_tree

\* C19's case: the returned tree, with the moon Pol three levels down
C19_Witness ==
    /\ pc = "done" /\ call.op = "new_stock"
    /\ Len(result.value.menu_tree.children) = 10
    /\ NodeAt(result.value.menu_tree, <<4, 5>>).name = "Pol"
    /\ NodeAt(result.value.menu_tree, <<4, 5, 2>>) = EndNode("Low Pol Orbit (10km)", 29)

\* C15: no call on a finished map changes it: whatever the library's caller
\* or a callback of the graphical program does once the map is built (a
\* search, a name, an index, the tree accessor, a delta-v query that ends
\* in a number, None, an error or a panic, a click, a selection, a close
\* request), the tree and the graph after the step are those before it
C15_CatalogUnchanged ==
    [][gui.stage # "get_stock" => (menu_tree' = menu_tree /\ graph' = graph)]_vars

\* two selection callbacks have run on the complete stock map and the
\* second has put the number on the result label
C15_Witness ==
    /\ gui.stage = "ready"
    /\ gui.origin_label = "Kerbin Surface"
    /\ gui.target_label = "Mun Surface"
    /\ gui.result_label = "5120"
    /\ node_count(graph) = Cardinality(LeafPaths(stock_literal))
    /\ Len(graph.edges) = Len(stock_edges)
\* C16: a query is a function of the map's structure and the names given:
\* the second of two equal calls (calculate_delta_v or search) returns what
\* the first returned, whichever of the least entries each search popped
\* when several tied, and in whatever order the edges of the second map
\* were added
C16_SameResult ==
    (prev # NoCall /\ pc = "done") => result = prev.result

\* both calls found a cost on a triangle whose two paths between start and
\* end cost the same, and the edges of the second map were added in
\* another order than those kept from the first
C16_Witness ==
    /\ prev # NoCall
    /\ pc = "done"
    /\ prev.call.op = "calculate_delta_v"
    /\ result.tag = "Ok"
    /\ result.value # None
    /\ result.value[1] > 0
    /\ Len(graph.edges) = Len(TwiceSlots)
    /\ graph.edges[1][3] = graph.edges[2][3] + graph.edges[3][3]
    /\ <<graph.edges[1][1], graph.edges[1][2]>> = TwiceSlots[Len(TwiceSlots)]
    /\ {call.start, call.end} = {"Node2", "Node3"}
\* the node search_by_id was called on, and the paths from it to the
\* EndNodes below it (itself included) that carry the id searched for
SearchByIdSelf == NodeAt(menu_tree, call.self)
EndNodesWithId ==
    {p \in Paths(SearchByIdSelf) :
        /\ NodeAt(SearchByIdSelf, p).kind = "EndNode"
        /\ NodeAt(SearchByIdSelf, p).id = call.id}

\* C20: search_by_id(id) of the trait-based tree returns the first EndNode
\* in depth-first child order whose id is id, and None when no EndNode has
\* it; what it returns is never a MiddleNode, also when id is usize::MAX,
\* the value get_id() gives for every MiddleNode
C20_SearchById ==
    /\ (pc = "done" /\ call.op = "search_by_id") =>
          IF EndNodesWithId = {}
          THEN result.value = None
          ELSE /\ result.value # None
               /\ result.value[1] \in EndNodesWithId
               /\ \A q \in EndNodesWithId : ~Precedes(q, result.value[1])
               /\ NodeAt(SearchByIdSelf, result.value[1]).kind # "MiddleNode"
    /\ (pc = "done" /\ call.op = "get_id"
            /\ NodeAt(menu_tree, call.self).kind = "MiddleNode") =>
          result.value = usize_MAX

\* usize::MAX was searched for from a MiddleNode that has children, an
\* EndNode with another id among them, and no EndNode with that id: None
C20_Witness ==
    /\ pc = "done"
    /\ call.op = "search_by_id"
    /\ call.id = usize_MAX
    /\ SearchByIdSelf.kind = "MiddleNode"
    /\ get_id(SearchByIdSelf) = call.id
    /\ \E p \in Paths(SearchByIdSelf) : NodeAt(SearchByIdSelf, p).kind = "EndNode"
    /\ \E p \in Paths(SearchByIdSelf) :
          p # <<>> /\ NodeAt(SearchByIdSelf, p).kind = "MiddleNode"
    /\ result.value = None
\* the same notions on a graph g given: the weights between u and v, the
\* simple paths, and the set holding the all-paths minimum from a to b
\* (empty when no path joins them)
WeightsBetweenIn(g, u, v) ==
    {g.edges[i][3] : i \in {j \in DOMAIN g.edges : {g.edges[j][1], g.edges[j][2]} = {u, v}}}

SimplePathsIn(g, a, b) ==
    {p \in UNION {[1..n -> 0..(node_count(g) - 1)] : n \in 1..node_count(g)} :
        /\ p[1] = a
        /\ p[Len(p)] = b
        /\ \A i, j \in 1..Len(p) : i # j => p[i] # p[j]
        /\ \A i \in 1..(Len(p) - 1) : WeightsBetweenIn(g, p[i], p[i + 1]) # {}}

RECURSIVE PathCostIn(_, _, _)
PathCostIn(g, p, i) ==
    IF i >= Len(p) THEN 0
    ELSE Least(WeightsBetweenIn(g, p[i], p[i + 1])) + PathCostIn(g, p, i + 1)

MinPathCostIn(g, a, b) ==
    LET costs == {PathCostIn(g, p, 1) : p \in SimplePathsIn(g, a, b)}
    IN  IF costs = {} THEN {} ELSE {Least(costs)}

\* the graph before its last add_edge call
BeforeLastEdge == [graph EXCEPT !.edges = SubSeq(@, 1, Len(@) - 1)]

\* the costs from start to end of the ways that go over the edge added
\* last, in either direction, and are cheapest before and after it
OverAddedEdge ==
    LET g == BeforeLastEdge
        u == prev.added[1]
        v == prev.added[2]
    IN  {x + prev.added[3] + y :
            x \in MinPathCostIn(g, StartIndex, u), y \in MinPathCostIn(g, v, EndIndex)}
        \cup {x + prev.added[3] + y :
            x \in MinPathCostIn(g, StartIndex, v), y \in MinPathCostIn(g, u, EndIndex)}

\* C21: every edge is kept and considered, a second edge between two
\* joined nodes included: after one more add_edge call with a weight
\* that is not negative, the same query returns the least of what it
\* returned before and the costs of the ways over the new edge; so the
\* cost between two locations never grows, a None stays None unless the
\* new edge connects the two, and the cost drops only where the new edge
\* gives a cheaper way
C21_EdgeAdded ==
    (prev # NoCall /\ pc = "done" /\ BothLocations) =>
        LET before == IF prev.result.value = None THEN {} ELSE {prev.result.value[1]}
            now == before \cup OverAddedEdge
        IN  /\ prev.result.tag = "Ok"
            /\ result = IF now = {} THEN Ok(None) ELSE Ok(Some(Least(now)))
            /\ (before # {} /\ result.value # None) => result.value[1] <= prev.result.value[1]

\* the edge added joins two nodes that an edge joined already, it is
\* cheaper than that one, and the cost between the two has dropped to it
C21_Witness ==
    /\ prev # NoCall
    /\ pc = "done"
    /\ BothLocations
    /\ prev.added[1] # prev.added[2]
    /\ WeightsBetweenIn(BeforeLastEdge, prev.added[1], prev.added[2]) # {}
    /\ prev.result.value # None
    /\ result.value # None
    /\ result.value[1] < prev.result.value[1]
    /\ result.value[1] = prev.added[3]
    /\ {StartIndex, EndIndex} = {prev.added[1], prev.added[2]}
\* the least costs from the vertex a to every vertex a way leads to, found
\* by going over all edges again and again until nothing gets cheaper
CheaperOver(d) ==
    [v \in DOMAIN d \cup {e[2] : e \in {f \in Range(graph.edges) : f[1] \in DOMAIN d}}
                    \cup {e[1] : e \in {f \in Range(graph.edges) : f[2] \in DOMAIN d}} |->
        Least((IF v \in DOMAIN d THEN {d[v]} ELSE {})
              \cup {d[e[1]] + e[3] : e \in {f \in Range(graph.edges) : f[2] = v /\ f[1] \in DOMAIN d}}
              \cup {d[e[2]] + e[3] : e \in {f \in Range(graph.edges) : f[1] = v /\ f[2] \in DOMAIN d}})]

RECURSIVE Settled(_)
Settled(d) == LET c == CheaperOver(d) IN IF c = d THEN d ELSE Settled(c)

CostsFrom(a) == Settled(a :> 0)

\* what the result label has to show for the labels origin and target
LabelFor(origin, target) ==
    IF ~InTree(origin) THEN "The start node hasn't been selected yet"
    ELSE IF ~InTree(target) THEN "The end node hasn't been selected yet"
    ELSE IF Resolved(target).index \notin DOMAIN CostsFrom(Resolved(origin).index)
         THEN "There seems to be no connection between the nodes"
         ELSE ToString(CostsFrom(Resolved(origin).index)[Resolved(target).index])

\* C22: whenever the graphical program waits for the user (after start-up
\* and after every selection), the result label shows what
\* calculate_delta_v gives for the two button labels: the start text when
\* the origin label is no name of the tree (so also when neither is), the
\* end text exactly when the origin label is a name and the target label
\* is not, the no-connection text for None, the cost in decimal otherwise
C22_ResultLabel ==
    gui.stage = "ready" => gui.result_label = LabelFor(gui.origin_label, gui.target_label)

\* an origin was chosen while the target button still has its first label
C22_Witness ==
    /\ gui.stage = "ready"
    /\ gui.origin_label = "Minmus Surface"
    /\ gui.target_label = EndLabel
    /\ gui.result_label = "The end node hasn't been selected yet"
\* the map in hand is the one new_stock returns
IsStockMap ==
    /\ menu_tree.name = stock_literal.name
    /\ ~evaluate(menu_tree, graph).did
    /\ Len(graph.edges) = Len(stock_edges)

\* C23: the graph new_stock builds, as the caller holds it between calls,
\* has 55 vertices and 54 edges and a way from the first vertex to every
\* other, hence is a tree; and calculate_delta_v between any two EndNode
\* names of the stock tree returns Ok(Some(c)) with c >= 0, never Ok(None)
C23_StockConnected ==
    IsStockMap =>
        /\ pc = "idle" =>
              /\ node_count(graph) = 55
              /\ Len(graph.edges) = 54
              /\ DOMAIN CostsFrom(0) = Vertices
        /\ (DeltaVDone /\ BothLocations) =>
              /\ result.tag = "Ok"
              /\ result.value # None
              /\ result.value[1] >= 0

\* the two ends of the longest way of the stock map were asked for
C23_Witness ==
    /\ IsStockMap
    /\ DeltaVDone
    /\ call.start = "Eve Surface"
    /\ call.end = "Eeloo Surface"
    /\ result.tag = "Ok"
    /\ result.value # None
    /\ result.value[1] > 0
\* an answer that is a cost
IsCost(r) == r.tag = "Ok" /\ r.value # None

\* C24: triangle inequality: on every catalog (the weights are never
\* negative), for locations a, b, c: when the delta-v from a to b and the
\* one from b to c are both costs, the one from a to c is a cost and not
\* more than their sum
C24_Triangle ==
    (pc = "done" /\ prev.op = "second"
        /\ IsLocation(prev.a) /\ IsLocation(prev.b) /\ IsLocation(prev.c)
        /\ IsCost(prev.ab) /\ IsCost(prev.bc)) =>
            /\ IsCost(result)
            /\ result.value[1] <= prev.ab.value[1] + prev.bc.value[1]

\* three different locations, the direct answer strictly below the sum of
\* the two legs, none of the three zero
C24_Witness ==
    /\ pc = "done"
    /\ prev.op = "second"
    /\ Cardinality({prev.a, prev.b, prev.c}) = 3
    /\ IsCost(prev.ab) /\ IsCost(prev.bc) /\ IsCost(result)
    /\ prev.ab.value[1] > 0 /\ prev.bc.value[1] > 0 /\ result.value[1] > 0
    /\ result.value[1] < prev.ab.value[1] + prev.bc.value[1]
\* build_ui has made the widgets
HasWidgets == gui.stage \in {"build_ui", "selected", "ready"}

\* a leaf click has been worked off (set_result and close_selection at the
\* end of `selected`), or a close request
LeafChosenOrClosed ==
    \/ CloseRequest
    \/ gui.stage = "selected" /\ SetResult /\ pc' = "idle"

\* C25: in every state of the graphical program the origin and target
\* buttons are both greyed out exactly when the selection window is shown;
\* a click on either button greys out both and shows the window; a leaf
\* choice and a close request both hide the window and make both buttons
\* clickable again
C25_ButtonsAndWindow ==
    /\ [](HasWidgets =>
            /\ gui.origin_sensitive = gui.target_sensitive
            /\ gui.origin_sensitive = ~gui.select_window_visible)
    /\ [][(ClickOrigin \/ ClickTarget) =>
            /\ gui'.select_window_visible
            /\ ~gui'.origin_sensitive
            /\ ~gui'.target_sensitive]_vars
    /\ [][LeafChosenOrClosed =>
            /\ gui.select_window_visible
            /\ ~gui'.select_window_visible
            /\ gui'.origin_sensitive
            /\ gui'.target_sensitive]_vars

\* the window is open for the target and both buttons are greyed out,
\* after a leaf choice for the origin had closed it
C25_Witness ==
    /\ gui.stage = "ready"
    /\ gui.select_window_visible
    /\ ~gui.origin_sensitive
    /\ ~gui.target_sensitive
    /\ gui.sel = "TARGET"
    /\ gui.origin_label = "Mun Surface"
\* C26: a leaf choice sets the label of the button whose click opened the
\* window (the Selection flag says which) to the leaf's name and leaves
\* the other label alone; no other step changes a label, so a close
\* request changes neither; and only a click on the origin or the target
\* button changes the Selection flag
C26_LabelsAndFlag ==
    [][(HasWidgets /\ HasWidgets') =>
        /\ gui'.sel # gui.sel => ClickOrigin \/ ClickTarget
        /\ ClickOrigin => gui'.sel = "ORIGIN"
        /\ ClickTarget => gui'.sel = "TARGET"
        /\ Selected =>
              /\ gui'.sel = gui.sel
              /\ call'.start = gui'.origin_label
              /\ call'.end = gui'.target_label
              /\ IF gui.sel = "ORIGIN"
                 THEN /\ gui'.origin_label \in Buttons(menu_tree)
                      /\ gui'.target_label = gui.target_label
                 ELSE /\ gui'.target_label \in Buttons(menu_tree)
                      /\ gui'.origin_label = gui.origin_label
        /\ ~Selected =>
              /\ gui'.origin_label = gui.origin_label
              /\ gui'.target_label = gui.target_label]_vars

\* the window was opened with the target button and a leaf chosen: the
\* target button has the leaf's name, the origin button its first label
C26_Witness ==
    /\ gui.stage = "ready"
    /\ gui.sel = "TARGET"
    /\ gui.target_label = "Mun Surface"
    /\ gui.origin_label = StartLabel
    /\ ~gui.select_window_visible
\* C27: in the graphical program each of the two names given to
\* calculate_delta_v is the button's first label or the name of an EndNode
\* of the stock tree; search finds for the name of every EndNode that very
\* EndNode, and finds nothing for the two first labels; so no name given
\* stands for a MiddleNode, and calculate_delta_v never panics there
C27_NoPanicFromGui ==
    HasWidgets =>
        /\ \A p \in EvaluatedPaths(menu_tree) :
              search(menu_tree, NodeAt(menu_tree, p).name) = Ok(p)
        /\ \A n \in Buttons(menu_tree) : IsLocation(n)
        /\ ~InTree(StartLabel) /\ ~InTree(EndLabel)
        /\ gui.origin_label \in {StartLabel} \cup {NodeAt(menu_tree, p).name : p \in EvaluatedPaths(menu_tree)}
        /\ gui.target_label \in {EndLabel} \cup {NodeAt(menu_tree, p).name : p \in EvaluatedPaths(menu_tree)}
        /\ call.op = "calculate_delta_v" =>
              /\ call.start = gui.origin_label
              /\ call.end = gui.target_label
              /\ ~IsCategory(call.start)
              /\ ~IsCategory(call.end)
        /\ result.tag # "Panic"
        /\ pc # "failed"

\* a call with the names of two EndNodes has come back with a cost, after
\* clicks, a close request without a choice, and two leaf choices
C27_Witness ==
    /\ gui.stage = "selected"
    /\ pc = "done"
    /\ gui.sel = "ORIGIN"
    /\ IsLocation(call.start) /\ IsLocation(call.end)
    /\ call.start = "Minmus Surface"
    /\ call.end = "Kerbin Surface"
    /\ result.tag = "Ok"
\* the EndNodes of the tree whose vertex carries another payload than their name
MislabelledLeaves ==
    {NodeAt(menu_tree, p).name : p \in {q \in EvaluatedPaths(menu_tree) :
        graph.nodes[NodeAt(menu_tree, q).index + 1] # NodeAt(menu_tree, q).name}}

\* C28: in the catalog new_stock returns, every vertex of the graph carries
\* as its payload the name of the EndNode whose handle it is
C28_PayloadIsName ==
    (pc = "done" /\ call.op = "new_stock") => MislabelledLeaves = {}

\* new_stock has returned, and the vertices of exactly two EndNodes carry
\* a payload that is their name followed by a closing bracket
C28_Witness ==
    /\ pc = "done"
    /\ call.op = "new_stock"
    /\ MislabelledLeaves = {"Duna Surface", "Ike Intercept"}
    /\ graph.nodes[Resolved("Duna Surface").index + 1] = "Duna Surface)"
    /\ graph.nodes[Resolved("Ike Intercept").index + 1] = "Ike Intercept)"
\* C29: from_yaml reads a mapping at every depth as it reads the root: one
\* with the key children becomes a MiddleNode with a child for every entry
\* in order, one without becomes an EndNode with its name and id; so the
\* call does not panic, and the tree it returns is the one the mapping
\* describes, also when a category has leaves among its children
C29_FromYamlEveryDepth ==
    (call.op = "from_yaml") =>
        /\ result.tag = "Return"
        /\ yaml_of(result.value) = description.yaml

\* from_yaml was called with the mapping of the test tree, a category
\* with two leaves in a category with two further leaves, and panicked
C29_Witness ==
    /\ call.op = "from_yaml"
    /\ description.yaml = yaml_of(old_get_test_tree)
    /\ result = Panic(UnwrapNone)
    /\ pc = "failed"
\* the ids of the EndNodes of the tree
LeafIds == {NodeAt(menu_tree, p).id : p \in EvaluatedPaths(menu_tree)}

\* C30: in the map the earlier constructor stock returns, the ids of the
\* EndNodes are 0 to 32, each is the index of a vertex of the graph, and
\* the graph is connected: from the first vertex a way leads to every other
C30_OldStockPaired ==
    (pc = "done" /\ call.op = "stock") =>
        /\ LeafIds = 0..32
        /\ LeafIds \subseteq Vertices
        /\ DOMAIN CostsFrom(0) = Vertices

\* stock has returned: the graph has the vertices 0 to 31, so the leaf
\* with the id 32 has none, and from vertex 0 no way leads to the seven
\* vertices 16 to 22
C30_Witness ==
    /\ pc = "done"
    /\ call.op = "stock"
    /\ LeafIds = 0..32
    /\ Vertices = 0..31
    /\ LeafIds \ Vertices = {32}
    /\ Vertices \ DOMAIN CostsFrom(0) = 16..22
====================================================================
